---- MODULE Spec2Model ----
(***************************************************************************)
(* Model of the manual:: container library: manual::LinkedList (singly     *)
(* linked) and manual::DoublyLinkedList.  The state is a heap of nodes     *)
(* (what new/delete manage) plus the list objects (head_, tail_, size_).   *)
(* Every member function is translated statement by statement as an        *)
(* operator over a "frame": the heap together with the members of *this.   *)
(***************************************************************************)
EXTENDS Integers, Sequences, FiniteSets, TLC

\* ------------------------------------------------------------------ bounds
MaxNodes == 4      \* number of heap addresses new can hand out
MaxIndex == 5      \* indices passed to at / insert / remove are 0..MaxIndex
FarIndex == 12     \* one more index passed to at(), far beyond every size
MaxInit  == 2      \* longest initializer list
MaxOps   == 5      \* cap on the push counter of the counting specification
MaxSteps == 3      \* the largest n of it += n and it -= n
SizeBits == 5      \* the width of size_t in the model: arithmetic is modulo 2^SizeBits

NULL   == 0        \* nullptr
UNINIT == -1       \* the indeterminate content of a field that was never set

Addrs  == 1..MaxNodes
Lists  == {1, 2}   \* the list objects of the program
Values == {0, 1}   \* the element values it stores
Idx    == 0..MaxIndex

VARIABLES
    kind,      \* which class template the program instantiates
    heap,      \* allocated nodes: address -> node record
    lists,     \* list objects: status and the members head_, tail_, size_
    fault,     \* TRUE once a delete or an access hit a non-allocated address
    lastOp,    \* the member function that ran last, its arguments and result
    pushes,    \* counting specification: pushes applied
    pops       \* counting specification: pops applied to a non-empty list

vars == <<kind, heap, lists, fault, lastOp, pushes, pops>>

\* ------------------------------------------------------------------ memory
\* what is noted of the walk a member function made to reach an index: the
\* member it started from, the link it followed, the number of nodes it visited
NoWalk == [from |-> "none", via |-> "none", visited |-> 0]

\* A frame: the heap and the data members of *this while a member runs, and the
\* walk the member made (none yet).
Frame(l) == [heap |-> heap, fault |-> FALSE,
             head_ |-> lists[l].head_, tail_ |-> lists[l].tail_, size_ |-> lists[l].size_,
             walk |-> NoWalk]

\* struct Node of DoublyLinkedList right after `new Node`
DNode == [value |-> UNINIT, next |-> UNINIT, previous |-> UNINIT]
\* struct Node of LinkedList right after `new Node` (next has a default initializer)
SNode == [value |-> UNINIT, next |-> NULL]

\* the addresses operator new can still hand out
Free(h) == Addrs \ DOMAIN h

\* the address returned by `new Node`: the allocator is first-fit, it hands out the
\* lowest free address (a freed address is reused by the next new); the member
\* functions never compare or order addresses, so they behave alike under any
\* renaming of the addresses.  NULL when the heap is exhausted (never used then).
Alloc(h) == IF Free(h) = {} THEN NULL
            ELSE CHOOSE a \in Free(h) : \A b \in Free(h) : a <= b

\* new Node, placed at the address tmp the allocator returned
New(f, tmp, node) ==
    [f EXCEPT !.heap = (tmp :> node) @@ f.heap]

\* delete p  (delete of nullptr does nothing)
Delete(f, p) ==
    IF p = NULL THEN f
    ELSE IF p \in DOMAIN f.heap
         THEN [f EXCEPT !.heap = [n \in (DOMAIN f.heap) \ {p} |-> f.heap[n]]]
         ELSE [f EXCEPT !.fault = TRUE]

\* p->fld = v
Set(f, p, fld, v) ==
    IF p \in DOMAIN f.heap
    THEN [f EXCEPT !.heap[p][fld] = v]
    ELSE [f EXCEPT !.fault = TRUE]

\* p->fld
Get(f, p, fld) == IF p \in DOMAIN f.heap THEN f.heap[p][fld] ELSE NULL

\* a read through p, recorded as a fault when p is not an allocated node
Touch(f, p) == IF p \in DOMAIN f.heap THEN f ELSE [f EXCEPT !.fault = TRUE]

\* ------------------------------------------------------------ shared loops
\* for(size_t i = 0; i < size_; ++i) { tmp = current->next; delete current; current = tmp; }
RECURSIVE FreeLoop(_, _, _)
FreeLoop(f, current, i) ==
    IF i < f.size_
    THEN FreeLoop(Delete(Touch(f, current), current), Get(f, current, "next"), i + 1)
    ELSE f

\* a - b in size_t: unsigned, so a result below zero wraps around
SizeSub(a, b) == (a - b) % (2^SizeBits)

\* for(size_t i = 0; i < index; ++i) current = current->next;
RECURSIVE WalkNext(_, _, _, _)
WalkNext(f, current, i, index) ==
    IF i < index THEN WalkNext(f, Get(f, current, "next"), i + 1, index) ELSE current

\* mutant: the backward loop runs while i >= index, one step too far
RECURSIVE WalkPrev_OneTooFar(_, _, _, _)
WalkPrev_OneTooFar(f, current, i, index) ==
    IF i >= index THEN WalkPrev_OneTooFar(f, Get(f, current, "previous"), SizeSub(i, 1), index) ELSE current

\* for(size_t i = size_-1; i > index; --i) current = current->previous;
RECURSIVE WalkPrev(_, _, _, _)
WalkPrev(f, current, i, index) ==
    IF i > index THEN WalkPrev(f, Get(f, current, "previous"), SizeSub(i, 1), index) ELSE current

\* the number of times the body of the forward loop runs
RECURSIVE StepsNext(_, _)
StepsNext(i, index) == IF i < index THEN 1 + StepsNext(i + 1, index) ELSE 0

\* the number of times the body of the backward loop runs
RECURSIVE StepsPrev(_, _)
StepsPrev(i, index) == IF i > index THEN 1 + StepsPrev(SizeSub(i, 1), index) ELSE 0

\* mutant: operator[] never takes the backward branch
CloserToEnd_Never(f, index) == FALSE

\* the direction test of operator[]: (size_-1 - index) < index
CloserToEnd(f, index) == SizeSub(SizeSub(f.size_, 1), index) < index

\* the walk of operator[]: the branch taken, the node it stops at and the number
\* of nodes it visits, the starting node included
D_index_walk(f, index) ==
    IF CloserToEnd(f, index)
    THEN [from |-> "tail_", via |-> "previous",
          current |-> WalkPrev(f, f.tail_, SizeSub(f.size_, 1), index),
          visited |-> 1 + StepsPrev(SizeSub(f.size_, 1), index)]
    ELSE [from |-> "head_", via |-> "next",
          current |-> WalkNext(f, f.head_, 0, index),
          visited |-> 1 + StepsNext(0, index)]

\* the walk of the interior branch of insert
D_insert_walk(f, index) ==
    IF SizeSub(SizeSub(f.size_, 1), index) < index
    THEN [from |-> "tail_", via |-> "previous",
          current |-> WalkPrev(f, f.tail_, SizeSub(f.size_, 1), index),
          visited |-> 1 + StepsPrev(SizeSub(f.size_, 1), index)]
    ELSE [from |-> "head_", via |-> "next",
          current |-> WalkNext(f, f.head_, 0, index),
          visited |-> 1 + StepsNext(0, index)]

\* mutant: at the exact midpoint remove walks backward from tail_
D_remove_walk_TieBackward(f, index) ==
    IF SizeSub(SizeSub(f.size_, 1), index) <= index
    THEN [from |-> "tail_", via |-> "previous",
          current |-> WalkPrev(f, f.tail_, SizeSub(f.size_, 1), index),
          visited |-> 1 + StepsPrev(SizeSub(f.size_, 1), index)]
    ELSE [from |-> "head_", via |-> "next",
          current |-> WalkNext(f, f.head_, 0, index),
          visited |-> 1 + StepsNext(0, index)]

\* the walk of the interior branch of remove
D_remove_walk(f, index) ==
    IF SizeSub(SizeSub(f.size_, 1), index) < index
    THEN [from |-> "tail_", via |-> "previous",
          current |-> WalkPrev(f, f.tail_, SizeSub(f.size_, 1), index),
          visited |-> 1 + StepsPrev(SizeSub(f.size_, 1), index)]
    ELSE [from |-> "head_", via |-> "next",
          current |-> WalkNext(f, f.head_, 0, index),
          visited |-> 1 + StepsNext(0, index)]

\* the walk of LinkedList::operator[]: always forward from head_
S_index_walk(f, index) ==
    [from |-> "head_", via |-> "next",
     current |-> WalkNext(f, f.head_, 0, index),
     visited |-> 1 + StepsNext(0, index)]

\* what lastOp keeps of a walk
Trace(w) == [from |-> w.from, via |-> w.via, visited |-> w.visited]

\* the node operator[] of DoublyLinkedList stops at
D_locate(f, index) == D_index_walk(f, index).current

\* ------------------------------------------- DoublyLinkedList: modifiers
D_clear(f) ==
    IF f.size_ # 0
    THEN [FreeLoop(f, f.head_, 0) EXCEPT !.head_ = NULL, !.tail_ = NULL, !.size_ = 0]
    ELSE f

D_push_back(f, val) ==
    LET tmp == Alloc(f.heap)
        f1 == New(f, tmp, DNode)
        f2 == Set(f1, tmp, "value", val)
        f3 == Set(f2, tmp, "next", NULL)
        f4 == Set(f3, tmp, "previous", f.tail_)
        f5 == IF f.size_ # 0 THEN Set(f4, f.tail_, "next", tmp)
                             ELSE [f4 EXCEPT !.head_ = tmp]
    IN  [f5 EXCEPT !.tail_ = tmp, !.size_ = f.size_ + 1]

\* mutant: on an empty list leaves out `tail_ = tmp`
D_push_front_NoTail(f, val) ==
    LET tmp == Alloc(f.heap)
        f1 == New(f, tmp, DNode)
        f2 == Set(f1, tmp, "value", val)
        f3 == Set(f2, tmp, "previous", NULL)
        f4 == Set(f3, tmp, "next", f.head_)
        f5 == IF f.size_ # 0 THEN Set(f4, f.head_, "previous", tmp) ELSE f4
    IN  [f5 EXCEPT !.head_ = tmp, !.size_ = f.size_ + 1]

D_push_front(f, val) ==
    LET tmp == Alloc(f.heap)
        f1 == New(f, tmp, DNode)
        f2 == Set(f1, tmp, "value", val)
        f3 == Set(f2, tmp, "previous", NULL)
        f4 == Set(f3, tmp, "next", f.head_)
        f5 == IF f.size_ # 0 THEN Set(f4, f.head_, "previous", tmp)
                             ELSE [f4 EXCEPT !.tail_ = tmp]
    IN  [f5 EXCEPT !.head_ = tmp, !.size_ = f.size_ + 1]

\* mutant: the size_ == 1 branch returns before `--size_`
D_pop_back_NoDecrement(f) ==
    IF f.size_ # 0
    THEN IF f.size_ = 1
         THEN [Delete(f, f.tail_) EXCEPT !.tail_ = NULL, !.head_ = NULL]
         ELSE LET tmp == Get(f, f.tail_, "previous")
                  f1  == Set(Touch(f, f.tail_), tmp, "next", NULL)
                  f2  == Delete(f1, f.tail_)
              IN  [f2 EXCEPT !.tail_ = tmp, !.size_ = f.size_ - 1]
    ELSE f

D_pop_back(f) ==
    IF f.size_ # 0
    THEN LET g == IF f.size_ = 1
                  THEN [Delete(f, f.tail_) EXCEPT !.tail_ = NULL, !.head_ = NULL]
                  ELSE LET tmp == Get(f, f.tail_, "previous")
                           f1  == Set(Touch(f, f.tail_), tmp, "next", NULL)
                           f2  == Delete(f1, f.tail_)
                       IN  [f2 EXCEPT !.tail_ = tmp]
         IN  [g EXCEPT !.size_ = f.size_ - 1]
    ELSE f

D_pop_front(f) ==
    IF f.size_ # 0
    THEN LET g == IF f.size_ = 1
                  THEN [Delete(f, f.head_) EXCEPT !.head_ = NULL, !.tail_ = NULL]
                  ELSE LET tmp == Get(f, f.head_, "next")
                           f1  == Set(Touch(f, f.head_), tmp, "previous", NULL)
                           f2  == Delete(f1, f.head_)
                       IN  [f2 EXCEPT !.head_ = tmp]
         IN  [g EXCEPT !.size_ = f.size_ - 1]
    ELSE f

\* mutant: the interior branch ends with `tail_ = tmp`
D_insert_MovesTail(f, index, val) ==
    IF index <= f.size_
    THEN IF index = 0 THEN D_push_front(f, val)
         ELSE IF index = f.size_ THEN D_push_back(f, val)
         ELSE LET tmp     == Alloc(f.heap)
                  f1      == New(f, tmp, DNode)
                  f2      == Set(f1, tmp, "value", val)
                  w       == D_insert_walk(f2, index)
                  current == w.current
                  prev    == Get(f2, current, "previous")
                  f3      == Set(Touch(f2, current), prev, "next", tmp)
                  f4      == Set(f3, tmp, "previous", Get(f3, current, "previous"))
                  f5      == Set(f4, tmp, "next", current)
                  f6      == Set(f5, current, "previous", tmp)
              IN  [f6 EXCEPT !.size_ = f.size_ + 1, !.walk = Trace(w), !.tail_ = tmp]
    ELSE f

\* mutant: the interior branch leaves out `current->previous = tmp`
D_insert_NoBackLink(f, index, val) ==
    IF index <= f.size_
    THEN IF index = 0 THEN D_push_front(f, val)
         ELSE IF index = f.size_ THEN D_push_back(f, val)
         ELSE LET tmp     == Alloc(f.heap)
                  f1      == New(f, tmp, DNode)
                  f2      == Set(f1, tmp, "value", val)
                  w       == D_insert_walk(f2, index)
                  current == w.current
                  prev    == Get(f2, current, "previous")
                  f3      == Set(Touch(f2, current), prev, "next", tmp)
                  f4      == Set(f3, tmp, "previous", Get(f3, current, "previous"))
                  f5      == Set(f4, tmp, "next", current)
              IN  [f5 EXCEPT !.size_ = f.size_ + 1, !.walk = Trace(w)]
    ELSE f

D_insert(f, index, val) ==
    IF index <= f.size_
    THEN IF index = 0 THEN D_push_front(f, val)
         ELSE IF index = f.size_ THEN D_push_back(f, val)
         ELSE LET tmp     == Alloc(f.heap)
                  f1      == New(f, tmp, DNode)
                  f2      == Set(f1, tmp, "value", val)
                  w       == D_insert_walk(f2, index)
                  current == w.current
                  prev    == Get(f2, current, "previous")
                  f3      == Set(Touch(f2, current), prev, "next", tmp)
                  f4      == Set(f3, tmp, "previous", Get(f3, current, "previous"))
                  f5      == Set(f4, tmp, "next", current)
                  f6      == Set(f5, current, "previous", tmp)
              IN  [f6 EXCEPT !.size_ = f.size_ + 1, !.walk = Trace(w)]
    ELSE f

\* mutant: the interior branch leaves out `current->previous->next = current->next`
D_remove_NoForwardLink(f, index) ==
    IF index < f.size_
    THEN IF index = 0 THEN D_pop_front(f)
         ELSE IF index = f.size_ - 1 THEN D_pop_back(f)
         ELSE LET w       == D_remove_walk(f, index)
                  current == w.current
                  f2      == Set(Touch(f, current), Get(f, current, "next"),
                                 "previous", Get(f, current, "previous"))
                  f3      == Delete(f2, current)
              IN  [f3 EXCEPT !.size_ = f.size_ - 1, !.walk = Trace(w)]
    ELSE f

\* mutant: the interior branch moves the value of the next node into the node at
\* index and unlinks and deletes the next node instead
D_remove_CopyDown(f, index) ==
    IF index < f.size_
    THEN IF index = 0 THEN D_pop_front(f)
         ELSE IF index = f.size_ - 1 THEN D_pop_back(f)
         ELSE LET w       == D_remove_walk(f, index)
                  current == w.current
                  nxt     == Get(f, current, "next")
                  f1      == Set(Touch(f, current), current, "value", Get(f, nxt, "value"))
                  f2      == Set(f1, current, "next", Get(f, nxt, "next"))
                  f3      == IF Get(f, nxt, "next") # NULL
                             THEN Set(f2, Get(f, nxt, "next"), "previous", current)
                             ELSE [f2 EXCEPT !.tail_ = current]
                  f4      == Delete(f3, nxt)
              IN  [f4 EXCEPT !.size_ = f.size_ - 1, !.walk = Trace(w)]
    ELSE f

D_remove(f, index) ==
    IF index < f.size_
    THEN IF index = 0 THEN D_pop_front(f)
         ELSE IF index = f.size_ - 1 THEN D_pop_back(f)
         ELSE LET w       == D_remove_walk(f, index)
                  current == w.current
                  f1      == Set(Touch(f, current), Get(f, current, "previous"),
                                 "next", Get(f, current, "next"))
                  f2      == Set(f1, Get(f1, current, "next"),
                                 "previous", Get(f1, current, "previous"))
                  f3      == Delete(f2, current)
              IN  [f3 EXCEPT !.size_ = f.size_ - 1, !.walk = Trace(w)]
    ELSE f

\* ---------------------------------------- DoublyLinkedList: element access
\* operator[]: the node whose value is returned by reference
D_index(f, index) == D_locate(f, index)

\* ------------------------------------ DoublyLinkedList: copy, move, destroy
\* the while(other_current->next) loop of the copy constructor / copy assignment
\* (the model stops it when the heap is exhausted)
RECURSIVE D_copy_loop(_, _, _)
D_copy_loop(f, current, other_current) ==
    IF Get(f, other_current, "next") # NULL /\ Free(f.heap) # {}
    THEN LET tmp == Alloc(f.heap)
             f1  == Set(New(f, tmp, DNode), current, "next", tmp)
             f2  == Set(f1, tmp, "value", Get(f1, Get(f1, other_current, "next"), "value"))
             f3  == Set(f2, tmp, "previous", current)
             f4  == Set(f3, tmp, "next", NULL)
         IN  D_copy_loop(f4, Get(f4, current, "next"), Get(f4, other_current, "next"))
    ELSE [f EXCEPT !.tail_ = current]

\* the body shared by the copy constructor and copy assignment, entered with
\* head_ = tail_ = nullptr and size_ = other.size_
D_copy_body(f, other) ==
    IF f.size_ # 0
    THEN LET tmp == Alloc(f.heap)
             f1  == [New(f, tmp, DNode) EXCEPT !.head_ = tmp]
             f2  == Set(f1, tmp, "value", Get(f1, other.head_, "value"))
             f3  == Set(f2, tmp, "previous", NULL)
             f4  == Set(f3, tmp, "next", NULL)
         IN  D_copy_loop(Touch(f4, other.head_), tmp, other.head_)
    ELSE f

\* mutant: a shallow copy, the new list points at the nodes of other
D_copy_ctor_Shallow(f, other) ==
    [f EXCEPT !.head_ = other.head_, !.tail_ = other.tail_, !.size_ = other.size_]

D_copy_ctor(f, other) ==
    D_copy_body([f EXCEPT !.head_ = NULL, !.tail_ = NULL, !.size_ = other.size_], other)

\* mutant: leaves out `size_ = other.size_` after the clear()
D_copy_assign_NoSize(f, other) == D_copy_body(D_clear(f), other)

D_copy_assign(f, other) ==
    D_copy_body([D_clear(f) EXCEPT !.size_ = other.size_], other)

\* the initializer-list constructor's loop
RECURSIVE D_init_loop(_, _, _)
D_init_loop(f, current, rest) ==
    IF rest # <<>> /\ Free(f.heap) # {}
    THEN LET tmp == Alloc(f.heap)
             f1  == Set(New(f, tmp, DNode), current, "next", tmp)
             f2  == Set(f1, tmp, "value", Head(rest))
             f3  == Set(f2, tmp, "previous", current)
             f4  == Set(f3, tmp, "next", NULL)
         IN  D_init_loop(f4, Get(f4, current, "next"), Tail(rest))
    ELSE [f EXCEPT !.tail_ = current]

D_init_ctor(f, init_list) ==
    LET f0 == [f EXCEPT !.head_ = NULL, !.tail_ = NULL, !.size_ = Len(init_list)]
    IN  IF f0.size_ # 0
        THEN LET tmp == Alloc(f0.heap)
                 f1  == [New(f0, tmp, DNode) EXCEPT !.head_ = tmp]
                 f2  == Set(f1, tmp, "value", Head(init_list))
                 f3  == Set(f2, tmp, "previous", NULL)
                 f4  == Set(f3, tmp, "next", NULL)
             IN  D_init_loop(f4, tmp, Tail(init_list))
        ELSE f0

\* ~DoublyLinkedList
D_dtor(f) == IF f.size_ # 0 THEN FreeLoop(f, f.head_, 0) ELSE f

\* ------------------------------------------------- LinkedList: modifiers
\* mutant: leaves out `tail_ = nullptr`
S_clear_KeepTail(f) ==
    IF f.size_ # 0
    THEN [FreeLoop(f, f.head_, 0) EXCEPT !.head_ = NULL, !.size_ = 0]
    ELSE f

S_clear(f) ==
    IF f.size_ # 0
    THEN [FreeLoop(f, f.head_, 0) EXCEPT !.head_ = NULL, !.tail_ = NULL, !.size_ = 0]
    ELSE f

\* mutant: on a non-empty list leaves out `tail_->next = tmp`
S_push_back_NoLink(f, val) ==
    LET tmp == Alloc(f.heap)
        f1 == New(f, tmp, SNode)
        f2 == Set(f1, tmp, "value", val)
        f3 == Set(f2, tmp, "next", NULL)
        f4 == IF f.size_ # 0 THEN f3 ELSE [f3 EXCEPT !.head_ = tmp]
    IN  [f4 EXCEPT !.tail_ = tmp, !.size_ = f.size_ + 1]

S_push_back(f, val) ==
    LET tmp == Alloc(f.heap)
        f1 == New(f, tmp, SNode)
        f2 == Set(f1, tmp, "value", val)
        f3 == Set(f2, tmp, "next", NULL)
        f4 == IF f.size_ # 0 THEN Set(f3, f.tail_, "next", tmp)
                             ELSE [f3 EXCEPT !.head_ = tmp]
    IN  [f4 EXCEPT !.tail_ = tmp, !.size_ = f.size_ + 1]

S_push_front(f, val) ==
    LET tmp == Alloc(f.heap)
        f1 == New(f, tmp, SNode)
        f2 == Set(f1, tmp, "value", val)
        f3 == Set(f2, tmp, "next", f.head_)
        f4 == [f3 EXCEPT !.head_ = tmp]
        f5 == IF f.size_ = 0 THEN [f4 EXCEPT !.tail_ = tmp] ELSE f4
    IN  [f5 EXCEPT !.size_ = f.size_ + 1]

\* mutant: the search stops at tail_ itself: the test is current == tail_
RECURSIVE S_find_before_tail_AtTail(_, _, _)
S_find_before_tail_AtTail(f, current, fuel) ==
    IF current = f.tail_ \/ fuel = 0
    THEN current
    ELSE S_find_before_tail_AtTail(f, Get(f, current, "next"), fuel - 1)

\* the number of times the search loop of pop_back runs `current = current->next`
RECURSIVE S_find_steps(_, _, _)
S_find_steps(f, current, fuel) ==
    IF Get(f, current, "next") = f.tail_ \/ fuel = 0
    THEN 0
    ELSE 1 + S_find_steps(f, Get(f, current, "next"), fuel - 1)

\* while(!stop) { if(current->next == tail_) stop = true; else current = current->next; }
\* fuel bounds the walk of the model when the chain does not lead to tail_
RECURSIVE S_find_before_tail(_, _, _)
S_find_before_tail(f, current, fuel) ==
    IF Get(f, current, "next") = f.tail_ \/ fuel = 0
    THEN current
    ELSE S_find_before_tail(f, Get(f, current, "next"), fuel - 1)

\* mutant: leaves out `current->next = nullptr`
S_pop_back_KeepNext(f) ==
    IF f.size_ # 0
    THEN LET g == IF f.size_ = 1
                  THEN [Delete(f, f.head_) EXCEPT !.head_ = NULL, !.tail_ = NULL]
                  ELSE LET current == S_find_before_tail(f, f.head_, MaxNodes)
                           f1      == Delete(Touch(f, current), Get(f, current, "next"))
                       IN  [f1 EXCEPT !.tail_ = current]
         IN  [g EXCEPT !.size_ = f.size_ - 1]
    ELSE f

\* mutant: leaves out `tail_ = current`
S_pop_back_StaleTail(f) ==
    IF f.size_ # 0
    THEN LET g == IF f.size_ = 1
                  THEN [Delete(f, f.head_) EXCEPT !.head_ = NULL, !.tail_ = NULL]
                  ELSE LET current == S_find_before_tail(f, f.head_, MaxNodes)
                           f1      == Delete(Touch(f, current), Get(f, current, "next"))
                       IN  Set(f1, current, "next", NULL)
         IN  [g EXCEPT !.size_ = f.size_ - 1]
    ELSE f

S_pop_back(f) ==
    IF f.size_ # 0
    THEN LET g == IF f.size_ = 1
                  THEN [Delete(f, f.head_) EXCEPT !.head_ = NULL, !.tail_ = NULL]
                  ELSE LET current == S_find_before_tail(f, f.head_, MaxNodes)
                           f1      == Delete(Touch(f, current), Get(f, current, "next"))
                           f2      == Set(f1, current, "next", NULL)
                       IN  [f2 EXCEPT !.tail_ = current]
         IN  [g EXCEPT !.size_ = f.size_ - 1]
    ELSE f

\* mutant: leaves out `if(size_ == 1) tail_ = nullptr`
S_pop_front_KeepTail(f) ==
    IF f.size_ # 0
    THEN LET tmp == Get(f, f.head_, "next")
             f1  == [Delete(Touch(f, f.head_), f.head_) EXCEPT !.head_ = tmp]
         IN  [f1 EXCEPT !.size_ = f.size_ - 1]
    ELSE f

S_pop_front(f) ==
    IF f.size_ # 0
    THEN LET tmp == Get(f, f.head_, "next")
             f1  == [Delete(Touch(f, f.head_), f.head_) EXCEPT !.head_ = tmp]
             f2  == IF f.size_ = 1 THEN [f1 EXCEPT !.tail_ = NULL] ELSE f1
         IN  [f2 EXCEPT !.size_ = f.size_ - 1]
    ELSE f

\* for(size_t i = 0; i < index; ++i) { prev = current; current = current->next; }
RECURSIVE S_walk(_, _, _, _, _)
S_walk(f, prev, current, i, index) ==
    IF i < index
    THEN S_walk(f, current, Get(f, current, "next"), i + 1, index)
    ELSE [prev |-> prev, current |-> current]

\* mutant: the guard lets index == size_ + 1 through
S_insert_LooseGuard(f, index, val) ==
    IF index <= f.size_ + 1
    THEN IF index = 0 THEN S_push_front(f, val)
         ELSE IF index = f.size_ THEN S_push_back(f, val)
         ELSE LET tmp == Alloc(f.heap)
                  f1 == New(f, tmp, SNode)
                  f2 == Set(f1, tmp, "value", val)
                  w  == S_walk(f2, NULL, f2.head_, 0, index)
                  f3 == Set(f2, w.prev, "next", tmp)
                  f4 == Set(f3, tmp, "next", w.current)
              IN  [f4 EXCEPT !.size_ = f.size_ + 1]
    ELSE f

\* mutant: the interior branch links the new node after current, not before it
S_insert_AfterCurrent(f, index, val) ==
    IF index <= f.size_
    THEN IF index = 0 THEN S_push_front(f, val)
         ELSE IF index = f.size_ THEN S_push_back(f, val)
         ELSE LET tmp == Alloc(f.heap)
                  f1 == New(f, tmp, SNode)
                  f2 == Set(f1, tmp, "value", val)
                  w  == S_walk(f2, NULL, f2.head_, 0, index)
                  f3 == Set(f2, tmp, "next", Get(f2, w.current, "next"))
                  f4 == Set(f3, w.current, "next", tmp)
              IN  [f4 EXCEPT !.size_ = f.size_ + 1]
    ELSE f

\* mutant: leaves out the branch `else if(index == size_) push_back(value)`
S_insert_EndIsInterior(f, index, val) ==
    IF index <= f.size_
    THEN IF index = 0 THEN S_push_front(f, val)
         ELSE LET tmp == Alloc(f.heap)
                  f1 == New(f, tmp, SNode)
                  f2 == Set(f1, tmp, "value", val)
                  w  == S_walk(f2, NULL, f2.head_, 0, index)
                  f3 == Set(f2, w.prev, "next", tmp)
                  f4 == Set(f3, tmp, "next", w.current)
              IN  [f4 EXCEPT !.size_ = f.size_ + 1]
    ELSE f

S_insert(f, index, val) ==
    IF index <= f.size_
    THEN IF index = 0 THEN S_push_front(f, val)
         ELSE IF index = f.size_ THEN S_push_back(f, val)
         ELSE LET tmp == Alloc(f.heap)
                  f1 == New(f, tmp, SNode)
                  f2 == Set(f1, tmp, "value", val)
                  w  == S_walk(f2, NULL, f2.head_, 0, index)
                  f3 == Set(f2, w.prev, "next", tmp)
                  f4 == Set(f3, tmp, "next", w.current)
              IN  [f4 EXCEPT !.size_ = f.size_ + 1]
    ELSE f

\* mutant: the interior branch leaves out `--size_`
S_remove_KeepSize(f, index) ==
    IF index < f.size_
    THEN IF index = 0 THEN S_pop_front(f)
         ELSE IF index = f.size_ - 1 THEN S_pop_back(f)
         ELSE LET w  == S_walk(f, NULL, f.head_, 0, index)
                  f1 == Set(Touch(f, w.current), w.prev, "next", Get(f, w.current, "next"))
              IN  Delete(f1, w.current)
    ELSE f

S_remove(f, index) ==
    IF index < f.size_
    THEN IF index = 0 THEN S_pop_front(f)
         ELSE IF index = f.size_ - 1 THEN S_pop_back(f)
         ELSE LET w  == S_walk(f, NULL, f.head_, 0, index)
                  f1 == Set(Touch(f, w.current), w.prev, "next", Get(f, w.current, "next"))
                  f2 == Delete(f1, w.current)
              IN  [f2 EXCEPT !.size_ = f.size_ - 1]
    ELSE f

\* ---------------------------------------------- LinkedList: element access
\* operator[]: the node whose value is returned by reference
S_index(f, index) == WalkNext(f, f.head_, 0, index)

\* ------------------------------------------ LinkedList: copy, move, destroy
RECURSIVE S_copy_loop(_, _, _)
S_copy_loop(f, current, other_current) ==
    IF Get(f, other_current, "next") # NULL /\ Free(f.heap) # {}
    THEN LET tmp == Alloc(f.heap)
             f1  == Set(New(f, tmp, SNode), current, "next", tmp)
             f2  == Set(f1, tmp, "value", Get(f1, Get(f1, other_current, "next"), "value"))
             f3  == Set(f2, tmp, "next", NULL)
         IN  S_copy_loop(f3, Get(f3, current, "next"), Get(f3, other_current, "next"))
    ELSE [f EXCEPT !.tail_ = current]

S_copy_body(f, other) ==
    IF f.size_ # 0
    THEN LET tmp == Alloc(f.heap)
             f1  == [New(f, tmp, SNode) EXCEPT !.head_ = tmp]
             f2  == Set(f1, tmp, "value", Get(f1, other.head_, "value"))
             f3  == Set(f2, tmp, "next", NULL)
         IN  S_copy_loop(Touch(f3, other.head_), tmp, other.head_)
    ELSE f

S_copy_ctor(f, other) ==
    S_copy_body([f EXCEPT !.head_ = NULL, !.tail_ = NULL, !.size_ = other.size_], other)

S_copy_assign(f, other) ==
    S_copy_body([S_clear(f) EXCEPT !.size_ = other.size_], other)

RECURSIVE S_init_loop(_, _, _)
S_init_loop(f, current, rest) ==
    IF rest # <<>> /\ Free(f.heap) # {}
    THEN LET tmp == Alloc(f.heap)
             f1  == Set(New(f, tmp, SNode), current, "next", tmp)
             f2  == Set(f1, tmp, "value", Head(rest))
             f3  == Set(f2, tmp, "next", NULL)
         IN  S_init_loop(f3, Get(f3, current, "next"), Tail(rest))
    ELSE [f EXCEPT !.tail_ = current]

S_init_ctor(f, init_list) ==
    LET f0 == [f EXCEPT !.head_ = NULL, !.tail_ = NULL, !.size_ = Len(init_list)]
    IN  IF f0.size_ # 0
        THEN LET tmp == Alloc(f0.heap)
                 f1  == [New(f0, tmp, SNode) EXCEPT !.head_ = tmp]
                 f2  == Set(f1, tmp, "value", Head(init_list))
                 f3  == Set(f2, tmp, "next", NULL)
             IN  S_init_loop(f3, tmp, Tail(init_list))
        ELSE f0

\* ~LinkedList
S_dtor(f) == IF f.size_ # 0 THEN FreeLoop(f, f.head_, 0) ELSE f

\* --------------------------------------------------------- move (both lists)
\* the members a moved-from list is left with by std::exchange
Exchanged == [head_ |-> NULL, tail_ |-> NULL, size_ |-> 0]

\* DoublyLinkedList(DoublyLinkedList&&): result for *this and for other
D_move_ctor(f, other) ==
    [this  |-> [f EXCEPT !.head_ = other.head_, !.tail_ = other.tail_, !.size_ = other.size_],
     other |-> Exchanged]

\* mutant: move assignment without the clear() of the destination
D_move_assign_NoClear(f, other) ==
    [this  |-> [f EXCEPT !.head_ = other.head_, !.tail_ = other.tail_, !.size_ = other.size_],
     other |-> Exchanged]

\* DoublyLinkedList::operator=(DoublyLinkedList&&) with this != &other
D_move_assign(f, other) ==
    LET c == D_clear(f)
    IN  [this  |-> [c EXCEPT !.head_ = other.head_, !.tail_ = other.tail_, !.size_ = other.size_],
         other |-> Exchanged]

\* mutant: the move constructor copies the members and leaves other as it was
S_move_ctor_KeepSource(f, other) ==
    [this  |-> [f EXCEPT !.head_ = other.head_, !.tail_ = other.tail_, !.size_ = other.size_],
     other |-> [head_ |-> other.head_, tail_ |-> other.tail_, size_ |-> other.size_]]

S_move_ctor(f, other) ==
    [this  |-> [f EXCEPT !.head_ = other.head_, !.tail_ = other.tail_, !.size_ = other.size_],
     other |-> Exchanged]

\* mutant: other.size_ is read but not exchanged for 0
S_move_assign_KeepSize(f, other) ==
    LET c == S_clear(f)
    IN  [this  |-> [c EXCEPT !.head_ = other.head_, !.tail_ = other.tail_, !.size_ = other.size_],
         other |-> [head_ |-> NULL, tail_ |-> NULL, size_ |-> other.size_]]

S_move_assign(f, other) ==
    LET c == S_clear(f)
    IN  [this  |-> [c EXCEPT !.head_ = other.head_, !.tail_ = other.tail_, !.size_ = other.size_],
         other |-> Exchanged]

\* ------------------------------------------------------ capacity, at()
size(l)  == lists[l].size_
empty(l) == lists[l].head_ = NULL

Digit(d) == CASE d = 0 -> "0" [] d = 1 -> "1" [] d = 2 -> "2" [] d = 3 -> "3" [] d = 4 -> "4"
              [] d = 5 -> "5" [] d = 6 -> "6" [] d = 7 -> "7" [] d = 8 -> "8" [] OTHER -> "9"

\* std::to_string of a size_t, as the sequence of its decimal digits
RECURSIVE to_string(_)
to_string(n) == IF n < 10 THEN <<Digit(n)>> ELSE to_string(n \div 10) \o <<Digit(n % 10)>>

\* mutant: the message names the size where the index belongs and the index
\* where the size belongs
D_what_Swapped(index, sz) ==
    <<"[Out of range error] - manual::DoublyLinkedList::at() - (index: ">> \o to_string(sz)
        \o <<", size: ">> \o to_string(index) \o <<").">>

\* the what() text of the std::out_of_range thrown by at(), as a sequence of pieces
D_what(index, sz) ==
    <<"[Out of range error] - manual::DoublyLinkedList::at() - (index: ">> \o to_string(index)
        \o <<", size: ">> \o to_string(sz) \o <<").">>
\* mutant: the message names the size twice
S_what_SizeTwice(index, sz) ==
    <<"[Out of range error] - manual::LinkedList::at() - (index: ">> \o to_string(sz)
        \o <<", size: ">> \o to_string(sz) \o <<").">>
S_what(index, sz) ==
    <<"[Out of range error] - manual::LinkedList::at() - (index: ">> \o to_string(index)
        \o <<", size: ">> \o to_string(sz) \o <<").">>

NoRet      == [kind |-> "none", ref |-> NULL, value |-> 0, what |-> <<>>]
Ref(f, n)  == [kind |-> "value", ref |-> n, value |-> Get(f, n, "value"), what |-> <<>>]
Thrown(w)  == [kind |-> "out_of_range", ref |-> NULL, value |-> 0, what |-> w]

\* front() and back(): return head_->value; / return tail_->value;  the reference
\* returned (both overloads, const and not, have the one body)
D_front(f) == Ref(f, f.head_)
D_back(f)  == Ref(f, f.tail_)
S_front(f) == Ref(f, f.head_)
\* mutant: at() throws only when index > size_
D_at_GuardOffByOne(f, index) ==
    IF index > f.size_ THEN Thrown(D_what(index, f.size_)) ELSE Ref(f, D_index(f, index))
\* mutant: back() returns head_->value
S_back_Head(f) == Ref(f, f.head_)
S_back(f)  == Ref(f, f.tail_)

D_at(f, index) ==
    IF index >= f.size_ THEN Thrown(D_what(index, f.size_)) ELSE Ref(f, D_index(f, index))
S_at(f, index) ==
    IF index >= f.size_ THEN Thrown(S_what(index, f.size_)) ELSE Ref(f, S_index(f, index))

\* ----------------------------------------------------------------- cursors
\* the iterator classes; each holds one member, Node * node
Forward     == {"Iterator", "ConstIterator"}
Reverse     == {"ReverseIterator", "ConstReverseIterator"}

\* results of a member function that returns a cursor of class k:
\* the cursor with node == n, returned by a defined execution
Cur(k, n)  == [kind |-> "cursor", ref |-> n, value |-> 0, what |-> <<k>>]
\* the execution read through a pointer that is no node and was stopped there
Trap       == [kind |-> "trap", ref |-> NULL, value |-> 0, what |-> <<>>]
\* the execution read through a pointer that is no node and went on with n
Wild(k, n) == [kind |-> "undefined", ref |-> n, value |-> 0, what |-> <<k>>]

\* it.node = p->fld; return it;  -- the read of p->fld is undefined when p is not
\* a node (p == nullptr included): the execution may stop, or go on with a null
\* or an arbitrary pointer
Deref(k, f, p, fld) ==
    IF p \in DOMAIN f.heap
    THEN {Cur(k, f.heap[p][fld])}
    ELSE {Trap} \cup {Wild(k, n) : n \in {NULL, UNINIT}}

\* DoublyLinkedList: the cursor-producing members (each a set of outcomes)
D_begin(f)   == {Cur("Iterator", f.head_)}
D_end(f)     == Deref("Iterator", f, f.tail_, "next")
D_cbegin(f)  == {Cur("ConstIterator", f.head_)}
D_cend(f)    == Deref("ConstIterator", f, f.tail_, "next")
D_rbegin(f)  == {Cur("ReverseIterator", f.tail_)}
D_rend(f)    == Deref("ReverseIterator", f, f.head_, "previous")
D_crbegin(f) == {Cur("ConstReverseIterator", f.tail_)}
D_crend(f)   == Deref("ConstReverseIterator", f, f.head_, "previous")

\* LinkedList: the cursor-producing members
S_begin(f)   == {Cur("Iterator", f.head_)}
S_end(f)     == Deref("Iterator", f, f.tail_, "next")
S_cbegin(f)  == {Cur("ConstIterator", f.head_)}
S_cend(f)    == Deref("ConstIterator", f, f.tail_, "next")

\* node->fld as a cursor reads it: the field of a node, and an indeterminate
\* value (UNINIT) when node is no node of the heap
Follow(f, node, fld) == IF node \in DOMAIN f.heap THEN f.heap[node][fld] ELSE UNINIT

\* operator++ (prefix) of the four classes, on the member node
Iterator_inc(f, node)             == IF node # NULL THEN Follow(f, node, "next") ELSE node
ConstIterator_inc(f, node)        == IF node # NULL THEN Follow(f, node, "next") ELSE node
ReverseIterator_inc_Next(f, node) == IF node # NULL THEN Follow(f, node, "next") ELSE node
ReverseIterator_inc(f, node)      == IF node # NULL THEN Follow(f, node, "previous") ELSE node
ConstReverseIterator_inc(f, node) == IF node # NULL THEN Follow(f, node, "previous") ELSE node

\* operator-- (prefix) of the four classes of DoublyLinkedList (the classes of
\* LinkedList have none)
Iterator_dec(f, node)             == IF node # NULL THEN Follow(f, node, "previous") ELSE node
ConstIterator_dec(f, node)        == IF node # NULL THEN Follow(f, node, "previous") ELSE node
ReverseIterator_dec(f, node)      == IF node # NULL THEN Follow(f, node, "next") ELSE node
ConstReverseIterator_dec(f, node) == IF node # NULL THEN Follow(f, node, "next") ELSE node

\* operator* : node->value
Iterator_star(f, node) == Follow(f, node, "value")

\* operator== and operator!= of two cursors of one class, on their members node
Iterator_eq_BothSet(lhs, rhs)  == lhs = rhs /\ lhs # NULL
Iterator_eq(lhs, rhs)  == lhs = rhs
Iterator_neq(lhs, rhs) == ~Iterator_eq(lhs, rhs)
ConstIterator_eq(lhs, rhs)  == lhs = rhs
ConstIterator_neq(lhs, rhs) == ~ConstIterator_eq(lhs, rhs)
ReverseIterator_eq(lhs, rhs)  == lhs = rhs
ReverseIterator_neq(lhs, rhs) == ~ReverseIterator_eq(lhs, rhs)
ConstReverseIterator_eq(lhs, rhs)  == lhs = rhs
ConstReverseIterator_neq(lhs, rhs) == ~ConstReverseIterator_eq(lhs, rhs)

Clear(f)                   == IF kind = "doubly" THEN D_clear(f) ELSE S_clear(f)
Push_back(f, val)          == IF kind = "doubly" THEN D_push_back(f, val) ELSE S_push_back(f, val)
Push_front(f, val)         == IF kind = "doubly" THEN D_push_front(f, val) ELSE S_push_front(f, val)
Pop_back(f)                == IF kind = "doubly" THEN D_pop_back(f) ELSE S_pop_back(f)
Pop_front(f)               == IF kind = "doubly" THEN D_pop_front(f) ELSE S_pop_front(f)
Insert(f, index, val)      == IF kind = "doubly" THEN D_insert(f, index, val) ELSE S_insert(f, index, val)
Remove(f, index)           == IF kind = "doubly" THEN D_remove(f, index) ELSE S_remove(f, index)
Index(f, index)            == IF kind = "doubly" THEN D_index(f, index) ELSE S_index(f, index)
Index_walk(f, index)       == IF kind = "doubly" THEN D_index_walk(f, index) ELSE S_index_walk(f, index)
At(f, index)               == IF kind = "doubly" THEN D_at(f, index) ELSE S_at(f, index)
Front(f)                   == IF kind = "doubly" THEN D_front(f) ELSE S_front(f)
Back(f)                    == IF kind = "doubly" THEN D_back(f) ELSE S_back(f)
Copy_ctor(f, o)            == IF kind = "doubly" THEN D_copy_ctor(f, o) ELSE S_copy_ctor(f, o)
Copy_assign(f, o)          == IF kind = "doubly" THEN D_copy_assign(f, o) ELSE S_copy_assign(f, o)
Init_ctor(f, il)           == IF kind = "doubly" THEN D_init_ctor(f, il) ELSE S_init_ctor(f, il)
Move_ctor(f, o)            == IF kind = "doubly" THEN D_move_ctor(f, o) ELSE S_move_ctor(f, o)
Move_assign(f, o)          == IF kind = "doubly" THEN D_move_assign(f, o) ELSE S_move_assign(f, o)
Dtor(f)                    == IF kind = "doubly" THEN D_dtor(f) ELSE S_dtor(f)

\* the cursor classes of the class in use, and their members
Cursors == IF kind = "doubly" THEN Forward \cup Reverse ELSE Forward
Begin(k, f) ==
    IF kind = "doubly"
    THEN CASE k = "Iterator" -> D_begin(f) [] k = "ConstIterator" -> D_cbegin(f)
           [] k = "ReverseIterator" -> D_rbegin(f) [] OTHER -> D_crbegin(f)
    ELSE CASE k = "Iterator" -> S_begin(f) [] OTHER -> S_cbegin(f)
End(k, f) ==
    IF kind = "doubly"
    THEN CASE k = "Iterator" -> D_end(f) [] k = "ConstIterator" -> D_cend(f)
           [] k = "ReverseIterator" -> D_rend(f) [] OTHER -> D_crend(f)
    ELSE CASE k = "Iterator" -> S_end(f) [] OTHER -> S_cend(f)
Inc(k, f, node) ==
    CASE k = "Iterator" -> Iterator_inc(f, node)
      [] k = "ConstIterator" -> ConstIterator_inc(f, node)
      [] k = "ReverseIterator" -> ReverseIterator_inc(f, node)
      [] OTHER -> ConstReverseIterator_inc(f, node)
Eq(k, lhs, rhs) ==
    CASE k = "Iterator" -> Iterator_eq(lhs, rhs)
      [] k = "ConstIterator" -> ConstIterator_eq(lhs, rhs)
      [] k = "ReverseIterator" -> ReverseIterator_eq(lhs, rhs)
      [] OTHER -> ConstReverseIterator_eq(lhs, rhs)
Neq(k, lhs, rhs) ==
    CASE k = "Iterator" -> Iterator_neq(lhs, rhs)
      [] k = "ConstIterator" -> ConstIterator_neq(lhs, rhs)
      [] k = "ReverseIterator" -> ReverseIterator_neq(lhs, rhs)
      [] OTHER -> ConstReverseIterator_neq(lhs, rhs)
Dec(k, f, node) ==
    CASE k = "Iterator" -> Iterator_dec(f, node)
      [] k = "ConstIterator" -> ConstIterator_dec(f, node)
      [] k = "ReverseIterator" -> ReverseIterator_dec(f, node)
      [] OTHER -> ConstReverseIterator_dec(f, node)

\* operator+=(rhs): for(size_t i = 0; i < rhs; ++i) ++(*this);  the same text in
\* every class
RECURSIVE PlusAssign_OneMore(_, _, _, _, _)
PlusAssign_OneMore(k, f, node, i, rhs) ==
    IF i <= rhs THEN PlusAssign_OneMore(k, f, Inc(k, f, node), i + 1, rhs) ELSE node
RECURSIVE PlusAssign(_, _, _, _, _)
PlusAssign(k, f, node, i, rhs) ==
    IF i < rhs THEN PlusAssign(k, f, Inc(k, f, node), i + 1, rhs) ELSE node

\* operator-=(rhs): for(size_t i = 0; i < rhs; ++i) --(*this);
RECURSIVE MinusAssign_OneLess(_, _, _, _, _)
MinusAssign_OneLess(k, f, node, i, rhs) ==
    IF i + 1 < rhs THEN MinusAssign_OneLess(k, f, Dec(k, f, node), i + 1, rhs) ELSE node
RECURSIVE MinusAssign(_, _, _, _, _)
MinusAssign(k, f, node, i, rhs) ==
    IF i < rhs THEN MinusAssign(k, f, Dec(k, f, node), i + 1, rhs) ELSE node

\* the cursor a stepping operator leaves: the one with member n, unless the
\* step read through a pointer that is no node
Stepped(k, n) ==
    IF n = UNINIT THEN {Trap} \cup {Wild(k, w) : w \in {NULL, UNINIT}} ELSE {Cur(k, n)}

\* iterator_cast<IT_type>(it): the IT_type each overload's static_assert lets
\* through, by the class of the argument
D_iterator_cast_Iterator     ==
    {"Iterator", "ConstIterator", "ReverseIterator", "ConstReverseIterator"}
D_iterator_cast_ReverseIterator ==
    {"Iterator", "ConstIterator", "ReverseIterator", "ConstReverseIterator"}
D_iterator_cast_ConstIterator_Loose ==
    {"Iterator", "ConstIterator", "ConstReverseIterator"}
D_iterator_cast_ConstIterator == {"ConstIterator", "ConstReverseIterator"}
D_iterator_cast_ConstReverseIterator == {"ConstReverseIterator", "ConstIterator"}
\* mutant: the static_assert of LinkedList::iterator_cast lets ReverseIterator through
S_iterator_cast_Iterator_Loose == {"Iterator", "ConstIterator", "ReverseIterator"}
\* LinkedList has the one overload, taking an Iterator
S_iterator_cast_Iterator == {"Iterator", "ConstIterator"}

\* the target classes a call iterator_cast<IT_type>(it) compiles for, it of class k
Cast_targets(k) ==
    IF kind = "doubly"
    THEN CASE k = "Iterator" -> D_iterator_cast_Iterator
           [] k = "ConstIterator" -> D_iterator_cast_ConstIterator
           [] k = "ReverseIterator" -> D_iterator_cast_ReverseIterator
           [] OTHER -> D_iterator_cast_ConstReverseIterator
    ELSE IF k = "Iterator" THEN S_iterator_cast_Iterator ELSE {}
\* IT_type res; res.node = it.node; return res;
Iterator_cast(t, node) == Cur(t, node)

\* for(it = begin; it != last; ++it) visit(*it) : the nodes visited, in order
\* (fuel bounds the loop of the model)
RECURSIVE Loop(_, _, _, _, _)
Loop(k, f, node, last, fuel) ==
    IF Iterator_neq(node, last) /\ fuel > 0
    THEN <<node>> \o Loop(k, f, Inc(k, f, node), last, fuel - 1)
    ELSE <<>>

\* the loop for(it = l.begin(); it != l.end(); ++it) (or cbegin/cend, rbegin/rend,
\* crbegin/crend, after the class k of it): its outcomes.  When the call that
\* makes the end cursor is undefined so is the loop.
Visited(k, ns) == [kind |-> "visited", ref |-> NULL, value |-> Len(ns), what |-> ns]
Traverse(k, f) ==
    {IF e.kind = "cursor" /\ b.kind = "cursor"
     THEN Visited(k, Loop(k, f, b.ref, e.ref, MaxNodes + 1))
     ELSE IF e.kind = "trap" \/ b.kind = "trap" THEN Trap
     ELSE Wild(k, NULL) : b \in Begin(k, f), e \in End(k, f)}

\* --------------------------------------------------------------- actions
\* the calls that create, destroy, empty or assign a whole list
Lifetime == {"ctor_default", "ctor_copy", "ctor_move", "ctor_init", "dtor", "clear",
             "assign_copy", "assign_move"}
Element  == {"push_back", "push_front", "pop_back", "pop_front", "insert", "remove",
             "at", "index", "front", "back"}
\* the calls that make a cursor, and the loops over a whole list
BeginName(k) == CASE k = "Iterator" -> "begin" [] k = "ConstIterator" -> "cbegin"
                  [] k = "ReverseIterator" -> "rbegin" [] OTHER -> "crbegin"
EndName(k)   == CASE k = "Iterator" -> "end" [] k = "ConstIterator" -> "cend"
                  [] k = "ReverseIterator" -> "rend" [] OTHER -> "crend"
LoopName(k)  == CASE k = "Iterator" -> "for_begin_end" [] k = "ConstIterator" -> "for_cbegin_cend"
                  [] k = "ReverseIterator" -> "for_rbegin_rend" [] OTHER -> "for_crbegin_crend"
Begins  == {BeginName(k) : k \in Forward \cup Reverse}
Ends    == {EndName(k) : k \in Forward \cup Reverse}
Loops   == {LoopName(k) : k \in Forward \cup Reverse}
\* the members of the cursor classes that step a cursor, and iterator_cast
StepOps == {"operator++", "operator--", "operator+=", "operator-=", "iterator_cast"}

\* A run mode m names the calls lastOp records in full (track); of any other call
\* it records the list the call ran on (who), or nothing at all.
Main  == [track |-> {}, who |-> FALSE]
One   == [track |-> Lifetime \cup Element, who |-> FALSE]
Pair  == [track |-> Lifetime, who |-> TRUE]
Cur1  == [track |-> Begins \cup Ends \cup Loops, who |-> FALSE]
Stp   == [track |-> Begins \cup Ends \cup StepOps, who |-> FALSE]

Live(l) == lists[l].status = "live"

\* operator new can serve n more nodes (std::bad_alloc is outside the model)
Room(h, n) == Cardinality(Free(h)) >= n

InitLists == UNION {[1..n -> Values] : n \in 0..MaxInit}

Members(f)  == [status |-> "live", head_ |-> f.head_, tail_ |-> f.tail_, size_ |-> f.size_]
NoObject(s) == [status |-> s, head_ |-> NULL, tail_ |-> NULL, size_ |-> 0]
Call(name, l, a, v, r) == [op |-> name, list |-> l, arg |-> a, val |-> v, ret |-> r,
                           walk |-> NoWalk]
NoCall == Call("none", 0, 0, 0, NoRet)

Record(m, call) ==
    lastOp' = IF call.op \in m.track THEN call
              ELSE IF m.who THEN Call("element", call.list, 0, 0, NoRet)
              ELSE NoCall

\* store the frame of a member function that ran on list l
Commit(m, l, f, call) ==
    /\ heap'  = f.heap
    /\ fault' = (fault \/ f.fault)
    /\ lists' = [lists EXCEPT ![l] = Members(f)]
    /\ Record(m, [call EXCEPT !.walk = f.walk])
    /\ kind'  = kind

\* the same for a member that also writes the members of `other` (move)
Commit2(m, l, o, r, call) ==
    /\ heap'  = r.this.heap
    /\ fault' = (fault \/ r.this.fault)
    /\ lists' = [lists EXCEPT ![l] = Members(r.this),
                              ![o] = [status |-> "live", head_ |-> r.other.head_,
                                      tail_ |-> r.other.tail_, size_ |-> r.other.size_]]
    /\ Record(m, call)
    /\ kind'  = kind

Do_ctor_default(m, l) ==
    /\ ~Live(l)
    /\ Commit(m, l, [Frame(l) EXCEPT !.head_ = NULL, !.tail_ = NULL, !.size_ = 0],
              Call("ctor_default", l, 0, 0, NoRet))

Do_ctor_copy(m, l, o) ==
    /\ ~Live(l) /\ Live(o)
    /\ Room(heap, lists[o].size_)
    /\ Commit(m, l, Copy_ctor(Frame(l), lists[o]), Call("ctor_copy", l, o, 0, NoRet))

Do_ctor_move(m, l, o) ==
    /\ ~Live(l) /\ Live(o)
    /\ Commit2(m, l, o, Move_ctor(Frame(l), lists[o]), Call("ctor_move", l, o, 0, NoRet))

Do_ctor_init(m, l, init_list) ==
    /\ ~Live(l)
    /\ Room(heap, Len(init_list))
    /\ Commit(m, l, Init_ctor(Frame(l), init_list), Call("ctor_init", l, 0, 0, NoRet))

\* the destructor; the members of a destroyed object are no longer accessible.
\* lastOp.arg records size_ as the destructor found it.
Do_dtor(m, l) ==
    /\ Live(l)
    /\ LET f == Dtor(Frame(l))
       IN  /\ heap'  = f.heap
           /\ fault' = (fault \/ f.fault)
           /\ lists' = [lists EXCEPT ![l] = NoObject("destroyed")]
           /\ Record(m, Call("dtor", l, lists[l].size_, 0, NoRet))
           /\ kind'  = kind

\* lastOp.arg records size_ as clear() found it
Do_clear(m, l) ==
    /\ Live(l)
    /\ Commit(m, l, Clear(Frame(l)), Call("clear", l, lists[l].size_, 0, NoRet))

Do_push_back(m, l, val) ==
    /\ Live(l)
    /\ Room(heap, 1)
    /\ Commit(m, l, Push_back(Frame(l), val), Call("push_back", l, 0, val, NoRet))

Do_push_front(m, l, val) ==
    /\ Live(l)
    /\ Room(heap, 1)
    /\ Commit(m, l, Push_front(Frame(l), val), Call("push_front", l, 0, val, NoRet))

\* lastOp.arg records size_ as the pop found it
Do_pop_back(m, l) ==
    /\ Live(l)
    /\ Commit(m, l, Pop_back(Frame(l)), Call("pop_back", l, lists[l].size_, 0, NoRet))

Do_pop_front(m, l) ==
    /\ Live(l)
    /\ Commit(m, l, Pop_front(Frame(l)), Call("pop_front", l, lists[l].size_, 0, NoRet))

\* insert calls new only when index <= size_
Do_insert(m, l, index, val) ==
    /\ Live(l)
    /\ index <= lists[l].size_ => Room(heap, 1)
    /\ Commit(m, l, Insert(Frame(l), index, val), Call("insert", l, index, val, NoRet))

Do_remove(m, l, index) ==
    /\ Live(l)
    /\ Commit(m, l, Remove(Frame(l), index), Call("remove", l, index, 0, NoRet))

\* operator=(const&): this == &other does nothing; otherwise clear() runs before the news
Do_assign_copy(m, l, o) ==
    /\ Live(l) /\ Live(o)
    /\ IF l = o
       THEN Commit(m, l, Frame(l), Call("assign_copy", l, o, 0, NoRet))
       ELSE /\ Room(Clear(Frame(l)).heap, lists[o].size_)
            /\ Commit(m, l, Copy_assign(Frame(l), lists[o]), Call("assign_copy", l, o, 0, NoRet))

\* mutant: operator=(&&) without the test this != &other
Do_assign_move_NoSelfTest(m, l, o) ==
    /\ Live(l) /\ Live(o)
    /\ Commit2(m, l, o, Move_assign(Frame(l), lists[o]), Call("assign_move", l, o, 0, NoRet))

\* operator=(&&): this == &other does nothing
Do_assign_move(m, l, o) ==
    /\ Live(l) /\ Live(o)
    /\ IF l = o
       THEN Commit(m, l, Frame(l), Call("assign_move", l, o, 0, NoRet))
       ELSE Commit2(m, l, o, Move_assign(Frame(l), lists[o]), Call("assign_move", l, o, 0, NoRet))

\* at(index): returns a reference or throws; a const member
Do_at(m, l, index) ==
    /\ Live(l)
    /\ Record(m, Call("at", l, index, 0, At(Frame(l), index)))
    /\ UNCHANGED <<kind, heap, lists, fault>>

\* operator[](index), called within its precondition index < size()
Do_index(m, l, index) ==
    /\ Live(l)
    /\ index < lists[l].size_
    /\ Record(m, [Call("index", l, index, 0, Ref(Frame(l), Index(Frame(l), index)))
                     EXCEPT !.walk = Trace(Index_walk(Frame(l), index))])
    /\ UNCHANGED <<kind, heap, lists, fault>>

\* front() and back(), called within their precondition: the list is not empty
Do_front(m, l) ==
    /\ Live(l)
    /\ lists[l].size_ # 0
    /\ Record(m, Call("front", l, 0, 0, Front(Frame(l))))
    /\ UNCHANGED <<kind, heap, lists, fault>>

Do_back(m, l) ==
    /\ Live(l)
    /\ lists[l].size_ # 0
    /\ Record(m, Call("back", l, 0, 0, Back(Frame(l))))
    /\ UNCHANGED <<kind, heap, lists, fault>>

\* begin() / cbegin() / rbegin() / crbegin(): the cursor returned
Do_begin(m, l, k) ==
    /\ Live(l)
    /\ \E r \in Begin(k, Frame(l)) : Record(m, Call(BeginName(k), l, 0, 0, r))
    /\ UNCHANGED <<kind, heap, lists, fault>>

\* end() / cend() / rend() / crend(): the cursor returned, if any
Do_end(m, l, k) ==
    /\ Live(l)
    /\ \E r \in End(k, Frame(l)) : Record(m, Call(EndName(k), l, 0, 0, r))
    /\ UNCHANGED <<kind, heap, lists, fault>>

\* a loop over the whole list with a cursor of class k
Do_traverse(m, l, k) ==
    /\ Live(l)
    /\ \E r \in Traverse(k, Frame(l)) : Record(m, Call(LoopName(k), l, 0, 0, r))
    /\ UNCHANGED <<kind, heap, lists, fault>>

\* the program holds the cursor its last call on list l returned
Held(l) == lastOp.list = l /\ lastOp.ret.kind = "cursor"
HeldClass == lastOp.ret.what[1]

\* ++it on the cursor held
Do_inc(m, l) ==
    /\ Live(l) /\ Held(l)
    /\ \E r \in Stepped(HeldClass, Inc(HeldClass, Frame(l), lastOp.ret.ref)) :
           Record(m, Call("operator++", l, 0, 0, r))
    /\ UNCHANGED <<kind, heap, lists, fault>>

\* --it on the cursor held; the cursor classes of LinkedList have no operator--
Do_dec(m, l) ==
    /\ Live(l) /\ Held(l) /\ kind = "doubly"
    /\ \E r \in Stepped(HeldClass, Dec(HeldClass, Frame(l), lastOp.ret.ref)) :
           Record(m, Call("operator--", l, 0, 0, r))
    /\ UNCHANGED <<kind, heap, lists, fault>>

\* it += n on the cursor held
Do_plus_assign(m, l, n) ==
    /\ Live(l) /\ Held(l)
    /\ \E r \in Stepped(HeldClass, PlusAssign(HeldClass, Frame(l), lastOp.ret.ref, 0, n)) :
           Record(m, Call("operator+=", l, n, 0, r))
    /\ UNCHANGED <<kind, heap, lists, fault>>

\* it -= n on the cursor held; the cursor classes of LinkedList have no operator-=
Do_minus_assign(m, l, n) ==
    /\ Live(l) /\ Held(l) /\ kind = "doubly"
    /\ \E r \in Stepped(HeldClass, MinusAssign(HeldClass, Frame(l), lastOp.ret.ref, 0, n)) :
           Record(m, Call("operator-=", l, n, 0, r))
    /\ UNCHANGED <<kind, heap, lists, fault>>

\* iterator_cast<t>(it) on the cursor held: only the calls that compile are steps
\* of a program
Do_iterator_cast(m, l, t) ==
    /\ Live(l) /\ Held(l)
    /\ t \in Cast_targets(HeldClass)
    /\ Record(m, Call("iterator_cast", l, 0, 0, Iterator_cast(t, lastOp.ret.ref)))
    /\ UNCHANGED <<kind, heap, lists, fault>>

NoCount == UNCHANGED <<pushes, pops>>

ctor_default(m, LS) == \E l \in LS : Do_ctor_default(m, l) /\ NoCount
ctor_copy(m, LS)    == \E l, o \in LS : Do_ctor_copy(m, l, o) /\ NoCount
ctor_move(m, LS)    == \E l, o \in LS : Do_ctor_move(m, l, o) /\ NoCount
ctor_init(m, LS)    == \E l \in LS, il \in InitLists : Do_ctor_init(m, l, il) /\ NoCount
dtor(m, LS)         == \E l \in LS : Do_dtor(m, l) /\ NoCount
clear(m, LS)        == \E l \in LS : Do_clear(m, l) /\ NoCount
push_back(m, LS)    == \E l \in LS, v \in Values : Do_push_back(m, l, v) /\ NoCount
push_front(m, LS)   == \E l \in LS, v \in Values : Do_push_front(m, l, v) /\ NoCount
pop_back(m, LS)     == \E l \in LS : Do_pop_back(m, l) /\ NoCount
pop_front(m, LS)    == \E l \in LS : Do_pop_front(m, l) /\ NoCount
insert(m, LS)       == \E l \in LS, i \in Idx, v \in Values : Do_insert(m, l, i, v) /\ NoCount
remove(m, LS)       == \E l \in LS, i \in Idx : Do_remove(m, l, i) /\ NoCount
assign_copy(m, LS)  == \E l, o \in LS : Do_assign_copy(m, l, o) /\ NoCount
assign_move(m, LS)  == \E l, o \in LS : Do_assign_move(m, l, o) /\ NoCount
at(m, LS)           == \E l \in LS, i \in Idx \cup {FarIndex} : Do_at(m, l, i) /\ NoCount
index(m, LS)        == \E l \in LS, i \in Idx : Do_index(m, l, i) /\ NoCount
front(m, LS)        == \E l \in LS : Do_front(m, l) /\ NoCount
back(m, LS)         == \E l \in LS : Do_back(m, l) /\ NoCount
it_begin(m, LS)     == \E l \in LS, k \in Cursors : Do_begin(m, l, k) /\ NoCount
it_end(m, LS)       == \E l \in LS, k \in Cursors : Do_end(m, l, k) /\ NoCount
it_traverse(m, LS)  == \E l \in LS, k \in Cursors : Do_traverse(m, l, k) /\ NoCount
it_inc(m, LS)       == \E l \in LS : Do_inc(m, l) /\ NoCount
it_dec(m, LS)       == \E l \in LS : Do_dec(m, l) /\ NoCount
it_plus_assign(m, LS)  == \E l \in LS, n \in 0..MaxSteps : Do_plus_assign(m, l, n) /\ NoCount
it_minus_assign(m, LS) == \E l \in LS, n \in 0..MaxSteps : Do_minus_assign(m, l, n) /\ NoCount
it_cast(m, LS)      == \E l \in LS, t \in Forward \cup Reverse : Do_iterator_cast(m, l, t) /\ NoCount

\* the program starts with no list object and an empty heap
Init ==
    /\ kind \in {"singly", "doubly"}
    /\ heap = [n \in {} |-> DNode]
    /\ lists = [l \in Lists |-> NoObject("unborn")]
    /\ fault = FALSE
    /\ lastOp = NoCall
    /\ pushes = 0
    /\ pops = 0

\* every member function, on either list
Step(m) ==
    \/ ctor_default(m, Lists) \/ ctor_copy(m, Lists) \/ ctor_move(m, Lists)
    \/ ctor_init(m, Lists) \/ dtor(m, Lists) \/ clear(m, Lists)
    \/ push_back(m, Lists) \/ push_front(m, Lists) \/ pop_back(m, Lists) \/ pop_front(m, Lists)
    \/ insert(m, Lists) \/ remove(m, Lists)
    \/ assign_copy(m, Lists) \/ assign_move(m, Lists)

\* Spec: any sequence of calls on two lists
Next == Step(Main)
Spec == Init /\ [][Next]_vars

\* SpecPair: the same with the lifetime calls recorded in lastOp, and of every
\* other call the list it ran on
NextPair == Step(Pair)
SpecPair == Init /\ [][NextPair]_vars

\* SpecOne: a program with one list object, every call recorded in lastOp
NextOne ==
    \/ ctor_default(One, {1}) \/ ctor_init(One, {1}) \/ dtor(One, {1}) \/ clear(One, {1})
    \/ push_back(One, {1}) \/ push_front(One, {1}) \/ pop_back(One, {1}) \/ pop_front(One, {1})
    \/ insert(One, {1}) \/ remove(One, {1})
    \/ assign_copy(One, {1}) \/ assign_move(One, {1})
    \/ at(One, {1}) \/ index(One, {1}) \/ front(One, {1}) \/ back(One, {1})
SpecOne == Init /\ [][NextOne]_vars

\* SpecCursor: a program with one list object that makes cursors and loops over
\* the list between the calls that change it; the cursor calls are recorded
NextCursor ==
    \/ ctor_default(Cur1, {1}) \/ ctor_init(Cur1, {1}) \/ dtor(Cur1, {1}) \/ clear(Cur1, {1})
    \/ push_back(Cur1, {1}) \/ push_front(Cur1, {1}) \/ pop_back(Cur1, {1}) \/ pop_front(Cur1, {1})
    \/ insert(Cur1, {1}) \/ remove(Cur1, {1})
    \/ it_begin(Cur1, {1}) \/ it_end(Cur1, {1}) \/ it_traverse(Cur1, {1})
SpecCursor == Init /\ [][NextCursor]_vars

\* SpecStep: a program with one list object that takes a cursor from it, steps
\* and converts the cursor, and drops it before the next call that changes the list
NextStep ==
    \/ ctor_default(Stp, {1}) \/ ctor_init(Stp, {1}) \/ dtor(Stp, {1}) \/ clear(Stp, {1})
    \/ push_back(Stp, {1}) \/ push_front(Stp, {1}) \/ pop_back(Stp, {1}) \/ pop_front(Stp, {1})
    \/ insert(Stp, {1}) \/ remove(Stp, {1})
    \/ it_begin(Stp, {1}) \/ it_end(Stp, {1})
    \/ it_inc(Stp, {1}) \/ it_dec(Stp, {1})
    \/ it_plus_assign(Stp, {1}) \/ it_minus_assign(Stp, {1}) \/ it_cast(Stp, {1})
SpecStep == Init /\ [][NextStep]_vars

\* ================================================================ properties
\* the addresses visited by walking next from p (at most fuel of them); a
\* non-allocated address ends the walk and is part of it
RECURSIVE ChainFrom(_, _, _)
ChainFrom(h, p, fuel) ==
    IF p = NULL \/ fuel = 0 THEN <<>>
    ELSE IF p \notin DOMAIN h THEN <<p>>
    ELSE <<p>> \o ChainFrom(h, h[p].next, fuel - 1)

NodesOf(h, ls, l)   == ChainFrom(h, ls[l].head_, MaxNodes + 1)
NodeSetOf(h, ls, l) == LET ns == NodesOf(h, ls, l) IN {ns[i] : i \in 1..Len(ns)}
ElemsOf(h, ls, l)   == LET ns == NodesOf(h, ls, l)
                       IN  [i \in 1..Len(ns) |->
                              IF ns[i] \in DOMAIN h THEN h[ns[i]].value ELSE UNINIT]

Nodes(l)   == NodesOf(heap, lists, l)
NodeSet(l) == NodeSetOf(heap, lists, l)
Elems(l)   == ElemsOf(heap, lists, l)
LiveLists  == {l \in Lists : Live(l)}
Allocated(n) == n \in DOMAIN heap

\* SpecCount: one list, constructed empty, driven by the two pushes and the two
\* pops; pushes counts the pushes, pops the pops that found the list non-empty
InitCount ==
    /\ kind \in {"singly", "doubly"}
    /\ heap = [n \in {} |-> DNode]
    /\ lists = [l \in Lists |-> IF l = 1 THEN Members(Exchanged) ELSE NoObject("unborn")]
    /\ fault = FALSE
    /\ lastOp = NoCall
    /\ pushes = 0
    /\ pops = 0

Counted(wasEmpty) == pops' = IF wasEmpty THEN pops ELSE pops + 1

count_push_back ==
    \E v \in Values : pushes < MaxOps /\ Do_push_back(Main, 1, v) /\ pushes' = pushes + 1 /\ pops' = pops
count_push_front ==
    \E v \in Values : pushes < MaxOps /\ Do_push_front(Main, 1, v) /\ pushes' = pushes + 1 /\ pops' = pops
count_pop_back ==
    Do_pop_back(Main, 1) /\ pushes' = pushes /\ Counted(Elems(1) = <<>>)
count_pop_front ==
    Do_pop_front(Main, 1) /\ pushes' = pushes /\ Counted(Elems(1) = <<>>)

NextCount == count_push_back \/ count_push_front \/ count_pop_back \/ count_pop_front
SpecCount == InitCount /\ [][NextCount]_vars

\* ---------------------------------------------------------------------- C1
\* C1: doubly-linked list, every reachable state: each node n of a list with
\* n.next = m present has m.previous = n; head.previous and tail.next are absent.
C1_DoublyLinked ==
    kind = "doubly" =>
        \A l \in LiveLists :
            /\ \A n \in NodeSet(l) :
                  /\ Allocated(n)
                  /\ heap[n].next # NULL =>
                        /\ Allocated(heap[n].next)
                        /\ heap[heap[n].next].previous = n
            /\ lists[l].head_ # NULL =>
                  Allocated(lists[l].head_) /\ heap[lists[l].head_].previous = NULL
            /\ lists[l].tail_ # NULL =>
                  Allocated(lists[l].tail_) /\ heap[lists[l].tail_].next = NULL

\* a doubly-linked list of at least three nodes next to a second non-empty list
C1_Witness ==
    /\ kind = "doubly"
    /\ \E l \in LiveLists, o \in LiveLists :
          l # o /\ lists[l].size_ >= 3 /\ lists[o].size_ >= 1

\* ---------------------------------------------------------------------- C2
\* C2: singly-linked list, every reachable state: walking next from head visits
\* exactly size nodes, the last one is tail, and tail.next is absent.
C2_SinglyLinked ==
    kind = "singly" =>
        \A l \in LiveLists :
            /\ Len(Nodes(l)) = lists[l].size_
            /\ \A n \in NodeSet(l) : Allocated(n)
            /\ IF Nodes(l) = <<>>
               THEN lists[l].tail_ = NULL
               ELSE /\ Nodes(l)[Len(Nodes(l))] = lists[l].tail_
                    /\ heap[lists[l].tail_].next = NULL

C2_Witness ==
    /\ kind = "singly"
    /\ \E l \in LiveLists, o \in LiveLists :
          l # o /\ lists[l].size_ >= 3 /\ lists[o].size_ >= 1

\* ---------------------------------------------------------------------- C3
\* C3: both lists, every reachable state: size == 0 iff head is absent, and head
\* is absent iff tail is absent.
C3_EmptyShape ==
    \A l \in LiveLists :
        /\ (lists[l].size_ = 0) <=> (lists[l].head_ = NULL)
        /\ (lists[l].head_ = NULL) <=> (lists[l].tail_ = NULL)

\* a list emptied again next to a list that still holds nodes
C3_Witness ==
    \E l \in LiveLists, o \in LiveLists :
        /\ lists[l].size_ = 0 /\ lists[l].head_ = NULL
        /\ lists[o].size_ >= 2
        /\ Cardinality(DOMAIN heap) = lists[o].size_
        /\ 1 \notin DOMAIN heap

\* ---------------------------------------------------------------------- C4
\* C4 as stated: size == 1 iff head == tail, and then the single node has no next
\* and no previous.
C4_Original ==
    \A l \in LiveLists :
        /\ (lists[l].size_ = 1) <=> (lists[l].head_ = lists[l].tail_)
        /\ lists[l].size_ = 1 =>
              /\ Allocated(lists[l].head_)
              /\ heap[lists[l].head_].next = NULL
              /\ kind = "doubly" => heap[lists[l].head_].previous = NULL

\* C4 amended: size == 1 iff head is present and head == tail, and then the single
\* node has no next and no previous (in the empty list head == tail too, both absent).
C4_SingleNode ==
    \A l \in LiveLists :
        /\ (lists[l].size_ = 1) <=> (lists[l].head_ # NULL /\ lists[l].head_ = lists[l].tail_)
        /\ lists[l].size_ = 1 =>
              /\ Allocated(lists[l].head_)
              /\ heap[lists[l].head_].next = NULL
              /\ kind = "doubly" => heap[lists[l].head_].previous = NULL

\* a one-node list whose node is not the first address handed out: it was reached
\* by removing nodes, next to a list with several nodes
C4_Witness ==
    \E l \in LiveLists, o \in LiveLists :
        /\ lists[l].size_ = 1 /\ lists[l].head_ = lists[l].tail_ /\ lists[l].head_ > 1
        /\ lists[o].size_ >= 2

\* ---------------------------------------------------------------------- C5
\* C5: over any sequence of calls on the lists, every node created is destroyed
\* exactly once: no delete ever hits a node that is not allocated, every node a
\* live list reaches is allocated, every allocated node belongs to a live list,
\* and once no list is alive no node remains allocated.
C5_NodeLifetime ==
    /\ fault = FALSE
    /\ \A l \in LiveLists : \A n \in NodeSet(l) : Allocated(n)
    /\ DOMAIN heap = UNION {NodeSet(l) : l \in LiveLists}
    /\ LiveLists = {} => DOMAIN heap = {}

\* the last list alive was destroyed while it held nodes, and both are destroyed
C5_Witness ==
    /\ lastOp.op = "dtor" /\ lastOp.arg >= 2
    /\ \A l \in Lists : lists[l].status = "destroyed"
    /\ DOMAIN heap = {}

\* ---------------------------------------------------------------------- C6
\* C6: every reachable state: no node is reachable from two lists and no node
\* occurs twice in one chain; after a copy the two node sets are disjoint and
\* after a move the source reaches no node.
C6_NoSharing ==
    /\ \A l \in LiveLists :
          \A i, j \in 1..Len(Nodes(l)) : i # j => Nodes(l)[i] # Nodes(l)[j]
    /\ \A l \in LiveLists, o \in LiveLists :
          l # o => NodeSet(l) \cap NodeSet(o) = {}
    /\ (lastOp.op \in {"ctor_copy", "assign_copy"} /\ lastOp.list # lastOp.arg) =>
          NodeSet(lastOp.list) \cap NodeSet(lastOp.arg) = {}
    /\ (lastOp.op \in {"ctor_move", "assign_move"} /\ lastOp.list # lastOp.arg) =>
          NodeSet(lastOp.arg) = {}

\* a move construction that handed over at least two nodes
C6_Witness ==
    /\ lastOp.op = "ctor_move"
    /\ lists[lastOp.list].size_ >= 2
    /\ Live(lastOp.arg) /\ NodeSet(lastOp.arg) = {}

\* ---------------------------------------------------------------------- C7
\* C7: both lists, every sequence of push_back, push_front, pop_back, pop_front
\* from an empty list: size() is the number of pushes minus the number of pops
\* applied to a non-empty list, and empty() is true exactly when size() == 0.
C7_SizeCounts ==
    /\ size(1) = pushes - pops
    /\ empty(1) <=> (size(1) = 0)

\* the list was filled, emptied and filled again
C7_Witness ==
    /\ pushes >= 4 /\ pops >= 3 /\ size(1) = pushes - pops /\ size(1) >= 1 /\ ~empty(1)

\* ---------------------------------------------------------------------- C8
\* reading a what() text back: the number written after "(index: " and the one
\* written after ", size: "
DigitVal(c) == CASE c = "0" -> 0 [] c = "1" -> 1 [] c = "2" -> 2 [] c = "3" -> 3 [] c = "4" -> 4
                 [] c = "5" -> 5 [] c = "6" -> 6 [] c = "7" -> 7 [] c = "8" -> 8 [] OTHER -> 9
RECURSIVE FromDigits(_)
FromDigits(ds) == IF ds = <<>> THEN 0
                  ELSE 10 * FromDigits(SubSeq(ds, 1, Len(ds) - 1)) + DigitVal(ds[Len(ds)])
SizeMark(w)     == CHOOSE k \in 1..Len(w) : w[k] = ", size: "
CarriedIndex(w) == FromDigits(SubSeq(w, 2, SizeMark(w) - 1))
CarriedSize(w)  == FromDigits(SubSeq(w, SizeMark(w) + 1, Len(w) - 1))

\* C8: both lists: at(index) fails with the out-of-range error exactly when
\* index >= size(); the error carries the requested index and the current size;
\* the list (head, tail, size, links, values) is unchanged by the call.
C8_AtChecked ==
    /\ [](lastOp.op = "at" =>
            /\ (lastOp.ret.kind = "out_of_range") <=> (lastOp.arg >= size(lastOp.list))
            /\ (lastOp.ret.kind = "value") <=> (lastOp.arg < size(lastOp.list))
            /\ lastOp.ret.kind = "out_of_range" =>
                  /\ CarriedIndex(lastOp.ret.what) = lastOp.arg
                  /\ CarriedSize(lastOp.ret.what) = size(lastOp.list))
    /\ [][lastOp'.op = "at" => (heap' = heap /\ lists' = lists /\ fault' = fault)]_vars

\* at(12) failed on a list of three nodes
C8_Witness ==
    /\ lastOp.op = "at" /\ lastOp.ret.kind = "out_of_range"
    /\ lastOp.arg = FarIndex /\ size(lastOp.list) = 3
    /\ Len(lastOp.ret.what) = 6

\* ---------------------------------------------------------------------- C9
\* C9: both lists, every index < size(): list[index] and list.at(index) return
\* the same element, the one reached after exactly index next-steps from head
\* (for the doubly-linked list also when operator[] walks back from tail).
C9_IndexAccess ==
    /\ \A l \in LiveLists : \A i \in 0..(lists[l].size_ - 1) :
          /\ At(Frame(l), i).kind = "value"
          /\ At(Frame(l), i).ref = Index(Frame(l), i)
          /\ i < Len(Nodes(l))
          /\ Index(Frame(l), i) = Nodes(l)[i + 1]
          /\ At(Frame(l), i).value = Elems(l)[i + 1]
    /\ (lastOp.op \in {"index", "at"} /\ lastOp.ret.kind = "value") =>
          /\ lastOp.arg < Len(Nodes(lastOp.list))
          /\ lastOp.ret.ref = Nodes(lastOp.list)[lastOp.arg + 1]
          /\ lastOp.ret.value = Elems(lastOp.list)[lastOp.arg + 1]

\* operator[](2) on a doubly-linked list of four nodes: the walk starts at tail
\* and takes one previous-step
C9_Witness ==
    /\ kind = "doubly"
    /\ lastOp.op = "index" /\ lastOp.arg = 2 /\ size(lastOp.list) = 4
    /\ lastOp.ret.ref = Nodes(lastOp.list)[3]

\* --------------------------------------------------------------------- C10
\* C10: both lists: the element sequence read by forward traversal follows the
\* abstract sequence: push_back(v) appends v, push_front(v) prepends v, pop_back()
\* on a non-empty list drops the last element, pop_front() on a non-empty list
\* drops the first; the other elements and their order are unchanged.
C10_SequenceRefinement ==
    [][ LET l      == lastOp'.list
            before == Elems(l)
            after  == ElemsOf(heap', lists', l)
        IN  /\ lastOp'.op = "push_back"  => after = Append(before, lastOp'.val)
            /\ lastOp'.op = "push_front" => after = <<lastOp'.val>> \o before
            /\ (lastOp'.op = "pop_back" /\ before # <<>>) =>
                  after = SubSeq(before, 1, Len(before) - 1)
            /\ (lastOp'.op = "pop_front" /\ before # <<>>) => after = Tail(before)
      ]_vars

\* pop_back() ran on a list of at least three elements with unlike ends
C10_Witness ==
    /\ lastOp.op = "pop_back" /\ lastOp.arg >= 3
    /\ size(lastOp.list) = lastOp.arg - 1
    /\ Elems(lastOp.list)[1] # Elems(lastOp.list)[Len(Elems(lastOp.list))]

\* ----------------------------------------------------- abstract sequences
\* s with v placed at position i (counted from 0), the later elements one later
InsertAt(s, i, v) == SubSeq(s, 1, i) \o <<v>> \o SubSeq(s, i + 1, Len(s))
\* s without the element at position i (counted from 0)
RemoveAt(s, i)    == SubSeq(s, 1, i) \o SubSeq(s, i + 2, Len(s))

\* --------------------------------------------------------------------- C11
\* C11: both lists, every index <= size(): after insert(index, value) the new
\* element is the element at position index, the elements formerly before index
\* are unchanged, those formerly at index or later are one position later, and
\* size grew by exactly 1.
C11_InsertShifts ==
    [][ LET l      == lastOp'.list
            i      == lastOp'.arg
            before == Elems(l)
            after  == ElemsOf(heap', lists', l)
        IN  (lastOp'.op = "insert" /\ i <= lists[l].size_) =>
                /\ lists'[l].size_ = lists[l].size_ + 1
                /\ Len(after) = Len(before) + 1
                /\ after[i + 1] = lastOp'.val
                /\ \A k \in 1..i : after[k] = before[k]
                /\ \A k \in (i + 1)..Len(before) : after[k + 1] = before[k]
                /\ after = InsertAt(before, i, lastOp'.val)
      ]_vars

\* insert(2, v) into a list of three elements put v between unlike neighbours:
\* an interior insert (for the doubly-linked list the one that walks from tail)
C11_Witness ==
    /\ lastOp.op = "insert" /\ lastOp.arg = 2 /\ size(lastOp.list) = 4
    /\ Elems(lastOp.list)[3] = lastOp.val
    /\ Elems(lastOp.list)[2] # Elems(lastOp.list)[4]

\* --------------------------------------------------------------------- C12
\* C12: both lists, every index < size(): after remove(index) the element
\* formerly at position index is gone and its node destroyed, the elements
\* formerly before index are unchanged, those formerly after index are one
\* position earlier, and size shrank by exactly 1.
C12_RemoveShifts ==
    [][ LET l      == lastOp'.list
            i      == lastOp'.arg
            before == Elems(l)
            after  == ElemsOf(heap', lists', l)
        IN  (lastOp'.op = "remove" /\ i < lists[l].size_) =>
                /\ lists'[l].size_ = lists[l].size_ - 1
                /\ Len(after) = Len(before) - 1
                /\ Nodes(l)[i + 1] \in DOMAIN heap
                /\ Nodes(l)[i + 1] \notin DOMAIN heap'
                /\ DOMAIN heap' = (DOMAIN heap) \ {Nodes(l)[i + 1]}
                /\ Nodes(l)[i + 1] \notin NodeSetOf(heap', lists', l)
                /\ \A k \in 1..i : after[k] = before[k]
                /\ \A k \in (i + 2)..Len(before) : after[k - 1] = before[k]
                /\ after = RemoveAt(before, i)
      ]_vars

\* remove(1) took an interior element out of a list of four, and the node it
\* freed was not the one allocated last
C12_Witness ==
    /\ lastOp.op = "remove" /\ lastOp.arg = 1 /\ size(lastOp.list) = 3
    /\ Elems(lastOp.list)[1] # Elems(lastOp.list)[2]
    /\ \E n \in Free(heap) : n < MaxNodes

\* --------------------------------------------------------------------- C13
\* C13: both lists: insert(index, v) with index > size(), remove(index) with
\* index >= size(), and pop_front() / pop_back() on an empty list leave head,
\* tail, size, every link and every value unchanged, allocate and destroy no
\* node, and report no error.
C13_SilentNoOp ==
    [][ LET l == lastOp'.list
        IN  (\/ lastOp'.op = "insert" /\ lastOp'.arg > lists[l].size_
             \/ lastOp'.op = "remove" /\ lastOp'.arg >= lists[l].size_
             \/ lastOp'.op \in {"pop_front", "pop_back"} /\ lists[l].size_ = 0) =>
                /\ lists' = lists
                /\ heap' = heap
                /\ fault' = fault
                /\ lastOp'.ret.kind = "none"
      ]_vars

\* remove(3) was called on a list of three elements: the first index out of range
C13_Witness ==
    /\ lastOp.op = "remove" /\ lastOp.arg = 3 /\ size(lastOp.list) = 3
    /\ Len(Nodes(lastOp.list)) = 3

\* --------------------------------------------------------------------- C14
\* the element sequence of the list a frame describes
ElemsIn(f) == ElemsOf(f.heap, [x \in {1} |-> f], 1)

\* C14: both lists, every list state and every index i <= size(): insert(i, v)
\* followed by remove(i) restores the original element sequence and size.
C14_InsertRemove ==
    \A l \in LiveLists : \A i \in 0..lists[l].size_ : \A v \in Values :
        Room(heap, 1) =>
            LET f1 == Insert(Frame(l), i, v)
                f2 == Remove(f1, i)
            IN  /\ f1.size_ = lists[l].size_ + 1
                /\ f2.size_ = lists[l].size_
                /\ ElemsIn(f2) = Elems(l)
                /\ Len(ElemsIn(f2)) = f2.size_
                /\ f2.fault = FALSE

\* a list of three elements with room for one more node: the interior round
\* trip insert(1, v); remove(1) passes through a list of four elements
C14_Witness ==
    \E l \in LiveLists :
        /\ lists[l].size_ = 3 /\ Room(heap, 1)
        /\ Elems(l)[1] # Elems(l)[2]
        /\ ElemsIn(Insert(Frame(l), 1, 1 - Elems(l)[2])) = InsertAt(Elems(l), 1, 1 - Elems(l)[2])
        /\ ElemsIn(Remove(Insert(Frame(l), 1, 1 - Elems(l)[2]), 1)) = Elems(l)

\* --------------------------------------------------------------------- C15
\* the calls that take the other list as a mutable argument
Moves  == {"ctor_move", "assign_move"}
Copies == {"ctor_copy", "assign_copy"}

\* C15: both lists: a list made by copy construction or copy assignment has the
\* element sequence and size of the original, which the copy leaves as it was;
\* and every later call on one list (any call but a move, which takes the other
\* list as its mutable argument) leaves the other list's sequence, nodes, size,
\* head and tail unchanged.
C15_DeepCopy ==
    [][ LET l == lastOp'.list
            o == lastOp'.arg
        IN  /\ (lastOp'.op \in Copies /\ l # o) =>
                  /\ ElemsOf(heap', lists', l) = Elems(o)
                  /\ lists'[l].size_ = lists[o].size_
                  /\ Len(ElemsOf(heap', lists', l)) = lists'[l].size_
                  /\ NodeSetOf(heap', lists', l) \cap NodeSetOf(heap', lists', o) = {}
            /\ (lastOp'.op \notin (Moves \cup {"none"})) =>
                  \A x \in Lists \ {l} :
                      /\ lists'[x] = lists[x]
                      /\ Live(x) => /\ NodesOf(heap', lists', x) = Nodes(x)
                                    /\ ElemsOf(heap', lists', x) = Elems(x)
                                    /\ \A n \in NodeSet(x) : heap'[n] = heap[n]
      ]_vars

\* a copy assignment made a two-element copy of a list with unlike elements
C15_Witness ==
    /\ lastOp.op = "assign_copy" /\ lastOp.list # lastOp.arg
    /\ size(lastOp.list) = 2 /\ Elems(lastOp.list) = Elems(lastOp.arg)
    /\ Elems(lastOp.arg)[1] # Elems(lastOp.arg)[2]
    /\ NodeSet(lastOp.list) \cap NodeSet(lastOp.arg) = {}

\* --------------------------------------------------------------------- C16
\* C16: both lists: after move construction or move assignment from a distinct
\* list the destination has the source's pre-move sequence and size, and the
\* source is in the empty state (head absent, tail absent, size 0): its members
\* are those of a freshly constructed list, a push_back(v) on it gives the
\* one-element list <<v>> and leaves the destination as it is.
C16_Move ==
    /\ [][ LET l == lastOp'.list
               o == lastOp'.arg
           IN  (lastOp'.op \in Moves /\ l # o) =>
                  /\ ElemsOf(heap', lists', l) = Elems(o)
                  /\ NodesOf(heap', lists', l) = Nodes(o)
                  /\ lists'[l].size_ = lists[o].size_
                  /\ lists'[l].head_ = lists[o].head_
                  /\ lists'[l].tail_ = lists[o].tail_
                  /\ lists'[o] = [status |-> "live", head_ |-> NULL, tail_ |-> NULL, size_ |-> 0]
         ]_vars
    /\ [](LET l == lastOp.list
              o == lastOp.arg
          IN  (lastOp.op \in Moves /\ l # o) =>
                  /\ Frame(o) = [Frame(o) EXCEPT !.head_ = NULL, !.tail_ = NULL, !.size_ = 0]
                  /\ Elems(o) = <<>>
                  /\ Room(heap, 1) =>
                        \A v \in Values :
                            LET f == Push_back(Frame(o), v)
                            IN  /\ ElemsIn(f) = <<v>>
                                /\ f.size_ = 1 /\ f.head_ = f.tail_ /\ f.fault = FALSE
                                /\ ElemsOf(f.heap, lists, l) = Elems(l)
                                /\ NodesOf(f.heap, lists, l) = Nodes(l))

\* a move assignment handed two unlike elements to a list that held a node itself
C16_Witness ==
    /\ lastOp.op = "assign_move" /\ lastOp.list # lastOp.arg
    /\ size(lastOp.list) = 2
    /\ Elems(lastOp.list)[1] # Elems(lastOp.list)[2]
    /\ lists[lastOp.arg] = [status |-> "live", head_ |-> NULL, tail_ |-> NULL, size_ |-> 0]
    /\ lists[lastOp.list].head_ > 1
    /\ Room(heap, 1)

\* --------------------------------------------------------------------- C19
Min(a, b) == IF a < b THEN a ELSE b

\* C19: doubly-linked list, every size N >= 1 and every index i < N:
\* operator[](i) visits exactly min(i+1, N-i) nodes, counting the end node it
\* starts from.
C19_NearestEnd ==
    kind = "doubly" =>
        /\ \A l \in LiveLists : \A i \in 0..(lists[l].size_ - 1) :
              /\ D_index_walk(Frame(l), i).visited = Min(i + 1, lists[l].size_ - i)
              /\ D_index_walk(Frame(l), i).current = D_index(Frame(l), i)
        /\ lastOp.op = "index" =>
              lastOp.walk.visited = Min(lastOp.arg + 1, size(lastOp.list) - lastOp.arg)

\* operator[](3) on a list of four: one node visited, the tail; and the walk of
\* operator[](2) in the same state visits two nodes, not three
C19_Witness ==
    /\ kind = "doubly"
    /\ lastOp.op = "index" /\ lastOp.arg = 3 /\ size(lastOp.list) = 4
    /\ lastOp.walk.visited = 1 /\ lastOp.ret.ref = lists[lastOp.list].tail_
    /\ D_index_walk(Frame(lastOp.list), 2).visited = 2
    /\ D_index_walk(Frame(lastOp.list), 1).visited = 2

\* --------------------------------------------------------------------- C20
\* the direction rule for a list of size n and an index
Backward(n, i) == (n - 1 - i) < i

\* C20: doubly-linked list: operator[], the interior branch of insert and the
\* interior branch of remove use one direction rule: the walk goes backward from
\* tail via previous exactly when size-1-index < index, otherwise forward from
\* head via next; at the exact midpoint (size-1-index == index) it goes forward.
C20_DirectionRule ==
    [][ LET l == lastOp'.list
            i == lastOp'.arg
            n == lists[l].size_
            w == lastOp'.walk
        IN  (/\ kind = "doubly"
             /\ \/ lastOp'.op = "index"
                \/ lastOp'.op = "insert" /\ 0 < i /\ i < n
                \/ lastOp'.op = "remove" /\ 0 < i /\ i < n - 1) =>
                /\ (w.from = "tail_" /\ w.via = "previous") <=> Backward(n, i)
                /\ (w.from = "head_" /\ w.via = "next") <=> ~Backward(n, i)
                /\ (n - 1 - i = i) => (w.from = "head_" /\ w.via = "next")
                /\ w.visited = IF Backward(n, i) THEN n - i ELSE i + 1
      ]_vars

\* remove(1) on a list of three, the exact midpoint, walked forward from head
C20_Witness ==
    /\ kind = "doubly"
    /\ lastOp.op = "remove" /\ lastOp.arg = 1 /\ size(lastOp.list) = 2
    /\ lastOp.walk = [from |-> "head_", via |-> "next", visited |-> 2]

\* --------------------------------------------------------------------- C17
\* the nodes a loop over list l with a cursor of class k has to visit: the nodes
\* at index 0..size-1, for a reverse cursor at index size-1..0
InOrder(l, k) ==
    [i \in 1..lists[l].size_ |->
        IF k \in Forward THEN Index(Frame(l), i - 1)
        ELSE Index(Frame(l), lists[l].size_ - i)]

\* C17 as stated: in every reachable list state a loop from begin() until end()
\* visits exactly size() elements in index order 0..size-1, and for the
\* doubly-linked list a loop from rbegin() until rend() visits exactly size()
\* elements in the reverse of that order.
C17_Original ==
    lastOp.op \in Loops =>
        /\ lastOp.ret.kind = "visited"
        /\ \E k \in Cursors :
              /\ lastOp.op = LoopName(k)
              /\ lastOp.ret.value = size(lastOp.list)
              /\ lastOp.ret.what = InOrder(lastOp.list, k)

\* C17 on the lists that hold an element: there the loops are defined and visit
\* the nodes in index order, the reverse ones in reverse index order.
C17_NonEmptyTraversal ==
    (lastOp.op \in Loops /\ size(lastOp.list) >= 1) =>
        /\ lastOp.ret.kind = "visited"
        /\ \E k \in Cursors :
              /\ lastOp.op = LoopName(k)
              /\ lastOp.ret.value = size(lastOp.list)
              /\ lastOp.ret.what = InOrder(lastOp.list, k)

\* a reverse loop over a doubly-linked list of three unlike elements
C17_Witness ==
    /\ kind = "doubly" /\ lastOp.op = "for_rbegin_rend" /\ size(lastOp.list) = 3
    /\ lastOp.ret.what = <<Nodes(lastOp.list)[3], Nodes(lastOp.list)[2], Nodes(lastOp.list)[1]>>
    /\ Elems(lastOp.list)[1] # Elems(lastOp.list)[3]

\* --------------------------------------------------------------------- C18
\* C18 as stated: in every reachable list state, of any size including 0, end()
\* and cend() return the past-the-end sentinel and rend() and crend() the
\* pre-the-beginning sentinel, a cursor whose node is absent, and producing it is
\* a defined operation.
C18_Original ==
    lastOp.op \in Ends =>
        /\ lastOp.ret.kind = "cursor"
        /\ lastOp.ret.ref = NULL

\* C18 on the lists that hold an element: there tail_->next and head_->previous
\* are read from nodes and are null.
C18_NonEmptySentinel ==
    (lastOp.op \in Ends /\ size(lastOp.list) >= 1) =>
        /\ lastOp.ret.kind = "cursor"
        /\ lastOp.ret.ref = NULL

\* rend() on a doubly-linked list of two elements
C18_Witness ==
    /\ kind = "doubly" /\ lastOp.op = "rend" /\ size(lastOp.list) = 2
    /\ lastOp.ret = Cur("ReverseIterator", NULL)

\* --------------------------------------------------------------------- C21
\* where a cursor of class k over list l stands: 1..size counted in the
\* direction the class travels, size + 1 for the sentinel (node == nullptr)
Place(l, k, node) ==
    IF node = NULL THEN size(l) + 1
    ELSE CHOOSE p \in 1..size(l) : InOrder(l, k)[p] = node
\* the member node of a cursor of class k standing at place p
NodeAt(l, k, p) == IF p \in 1..size(l) THEN InOrder(l, k)[p] ELSE NULL
\* n single ++ steps, one after the other
RECURSIVE IncTimes(_, _, _, _)
IncTimes(k, f, node, n) == IF n = 0 THEN node ELSE Inc(k, f, IncTimes(k, f, node, n - 1))
\* n single -- steps
RECURSIVE DecTimes(_, _, _, _)
DecTimes(k, f, node, n) == IF n = 0 THEN node ELSE Dec(k, f, DecTimes(k, f, node, n - 1))

\* C21: every cursor class of both lists: ++ from the last element in the
\* direction of travel gives the sentinel, and so does -- from the first element
\* (doubly-linked list); ++ and -- from the sentinel give the sentinel again and
\* are defined; it += n and it -= n give what n single ++ / -- steps give.
C21_SteppingAndSentinel ==
    [][lastOp'.op \in {"operator++", "operator--", "operator+=", "operator-="} =>
          LET l    == lastOp'.list
              k    == lastOp.ret.what[1]
              from == lastOp.ret.ref
              p    == Place(l, k, from)
              n    == lastOp'.arg
              N    == size(l)
          IN  /\ lastOp'.ret.kind = "cursor"
              /\ lastOp'.ret.what = <<k>>
              /\ lastOp'.op = "operator++" =>
                    /\ lastOp'.ret.ref = NodeAt(l, k, p + 1)
                    /\ p >= N => lastOp'.ret.ref = NULL
              /\ lastOp'.op = "operator--" =>
                    /\ lastOp'.ret.ref = (IF p = N + 1 THEN NULL ELSE NodeAt(l, k, p - 1))
                    /\ (p = 1 \/ p = N + 1) => lastOp'.ret.ref = NULL
              /\ lastOp'.op = "operator+=" =>
                    /\ lastOp'.ret.ref = IncTimes(k, Frame(l), from, n)
                    /\ lastOp'.ret.ref = NodeAt(l, k, Min(p + n, N + 1))
              /\ lastOp'.op = "operator-=" =>
                    /\ lastOp'.ret.ref = DecTimes(k, Frame(l), from, n)
                    /\ lastOp'.ret.ref = (IF p = N + 1 THEN NULL ELSE NodeAt(l, k, p - n))
    ]_vars

\* a reverse cursor of a list of two elements stepped by three: past the first
\* element and on from the sentinel
C21_Witness ==
    /\ kind = "doubly" /\ lastOp.op = "operator+=" /\ lastOp.arg = 3
    /\ size(lastOp.list) = 2
    /\ lastOp.ret = Cur("ReverseIterator", NULL)

\* --------------------------------------------------------------------- C22
\* C22: doubly-linked list: a ReverseIterator or ConstReverseIterator at the
\* element of index i goes with ++ to the element of index i - 1 (the sentinel
\* when i = 0) and with -- to the element of index i + 1 (the sentinel when
\* i = size - 1); an Iterator or ConstIterator does the opposite.
C22_ReverseStepping ==
    [][(kind = "doubly" /\ lastOp'.op \in {"operator++", "operator--"}
          /\ lastOp.ret.ref # NULL) =>
          LET l    == lastOp'.list
              k    == lastOp.ret.what[1]
              i    == CHOOSE j \in 0..(size(l) - 1) : Index(Frame(l), j) = lastOp.ret.ref
              down == IF i = 0 THEN NULL ELSE Index(Frame(l), i - 1)
              up   == IF i = size(l) - 1 THEN NULL ELSE Index(Frame(l), i + 1)
          IN  /\ lastOp'.ret.kind = "cursor"
              /\ (k \in Reverse /\ lastOp'.op = "operator++") => lastOp'.ret.ref = down
              /\ (k \in Reverse /\ lastOp'.op = "operator--") => lastOp'.ret.ref = up
              /\ (k \in Forward /\ lastOp'.op = "operator++") => lastOp'.ret.ref = up
              /\ (k \in Forward /\ lastOp'.op = "operator--") => lastOp'.ret.ref = down
    ]_vars

\* -- on a ConstReverseIterator has left it at the element of index 2 of a list
\* of three
C22_Witness ==
    /\ kind = "doubly" /\ lastOp.op = "operator--" /\ size(lastOp.list) = 3
    /\ lastOp.ret = Cur("ConstReverseIterator", Nodes(lastOp.list)[3])

\* --------------------------------------------------------------------- C23
Mutable == {"Iterator", "ReverseIterator"}
Const   == {"ConstIterator", "ConstReverseIterator"}
\* the pairs <<class of the argument, IT_type>> the claim lists
C23_Lattice ==
    {<<s, t>> : s \in Mutable, t \in Mutable \cup Const}
        \cup {<<"ConstIterator", "ConstIterator">>, <<"ConstIterator", "ConstReverseIterator">>,
              <<"ConstReverseIterator", "ConstReverseIterator">>,
              <<"ConstReverseIterator", "ConstIterator">>}

\* C23: doubly-linked list: iterator_cast compiles for exactly these pairs of
\* argument class and target class: from Iterator and from ReverseIterator to all
\* four classes, from ConstIterator to ConstIterator and ConstReverseIterator,
\* from ConstReverseIterator to ConstReverseIterator and ConstIterator; no
\* conversion a program performs takes a const cursor to a mutable one.
C23_ConversionLattice ==
    /\ [](kind = "doubly" =>
            {<<s, t>> \in (Mutable \cup Const) \X (Mutable \cup Const) : t \in Cast_targets(s)}
                = C23_Lattice)
    /\ [][(kind = "doubly" /\ lastOp'.op = "iterator_cast") =>
             /\ <<lastOp.ret.what[1], lastOp'.ret.what[1]>> \in C23_Lattice
             /\ ~(lastOp.ret.what[1] \in Const /\ lastOp'.ret.what[1] \in Mutable)
             /\ lastOp'.ret.kind = "cursor"
         ]_vars

\* a conversion has given a ConstReverseIterator at the last element of a list
\* of two, and one more conversion of it to ConstIterator compiles
C23_Witness ==
    /\ kind = "doubly" /\ lastOp.op = "iterator_cast" /\ size(lastOp.list) = 2
    /\ lastOp.ret = Cur("ConstReverseIterator", Nodes(lastOp.list)[2])
    /\ "ConstIterator" \in Cast_targets(lastOp.ret.what[1])
    /\ "Iterator" \notin Cast_targets(lastOp.ret.what[1])

\* --------------------------------------------------------------------- C24
\* the members node of the cursors of class k that stand at index i of list l
\* (i = size: at the sentinel), each made by another operation: by stepping from
\* begin() / rbegin() with +=, by the position operator[] finds, and, for the
\* sentinel of a list that holds an element, by end() / rend()
Made(l, k, i) ==
    LET f == Frame(l)
        n == IF k \in Forward \/ i = size(l) THEN i ELSE size(l) - 1 - i
    IN  {PlusAssign(k, f, b.ref, 0, n) : b \in Begin(k, f)}
            \cup (IF i < size(l) THEN {Index(f, i)} ELSE {})
            \cup (IF i = size(l) /\ size(l) >= 1 THEN {e.ref : e \in End(k, f)} ELSE {})

\* C24: both lists: two cursors of one class compare equal exactly when they
\* reference the same node (the same index of the same list) or are both the
\* sentinel, whichever list and whichever operation made them; operator!= is the
\* negation of operator==.
C24_Equality ==
    \A l1 \in LiveLists, l2 \in LiveLists, k \in Cursors :
        \A i \in 0..size(l1), j \in 0..size(l2) :
            \A a \in Made(l1, k, i), b \in Made(l2, k, j) :
               /\ Eq(k, a, b) <=> \/ (l1 = l2 /\ i = j)
                                  \/ (i = size(l1) /\ j = size(l2))
               /\ Neq(k, a, b) <=> ~Eq(k, a, b)

\* two lists of two elements: their sentinels are equal, the cursors at their
\* first elements are not, and stepping twice from begin() compares equal to end()
C24_Witness ==
    /\ Live(1) /\ Live(2) /\ size(1) = 2 /\ size(2) = 2
    /\ Elems(1) = Elems(2)
    /\ ~Iterator_eq(lists[1].head_, lists[2].head_)
    /\ \A e \in End("Iterator", Frame(2)) :
          Iterator_eq(PlusAssign("Iterator", Frame(1), lists[1].head_, 0, 2), e.ref)

\* --------------------------------------------------------------------- C25
\* C25: both lists: clear() destroys every node of the list and leaves head_ and
\* tail_ absent and size_ 0; on an empty list it changes nothing; the push_back,
\* push_front or insert that follows a clear() gives what it gives on a list
\* just constructed.
C25_Clear ==
    /\ [][lastOp'.op = "clear" =>
            LET l == lastOp'.list
            IN  /\ NodeSet(l) \cap DOMAIN heap' = {}
                /\ DOMAIN heap' = DOMAIN heap \ NodeSet(l)
                /\ \A n \in DOMAIN heap' : heap'[n] = heap[n]
                /\ lists'[l] = [status |-> "live", head_ |-> NULL, tail_ |-> NULL, size_ |-> 0]
                /\ fault' = fault
                /\ size(l) = 0 => (heap' = heap /\ lists' = lists)
        ]_vars
    /\ [][(lastOp.op = "clear" /\ lastOp'.op \in {"push_back", "push_front", "insert"}
             /\ lastOp'.list = lastOp.list) =>
            LET l     == lastOp'.list
                fresh == [Frame(l) EXCEPT !.head_ = NULL, !.tail_ = NULL, !.size_ = 0]
                then  == CASE lastOp'.op = "push_back" -> Push_back(fresh, lastOp'.val)
                           [] lastOp'.op = "push_front" -> Push_front(fresh, lastOp'.val)
                           [] OTHER -> Insert(fresh, lastOp'.arg, lastOp'.val)
            IN  /\ heap' = then.heap
                /\ lists'[l] = Members(then)
                /\ fault' = fault
                /\ ElemsOf(heap', lists', l) =
                      (IF lastOp'.op = "insert" /\ lastOp'.arg > 0 THEN <<>> ELSE <<lastOp'.val>>)
        ]_vars

\* clear() ran on a list of three elements and no node is left
C25_Witness ==
    /\ lastOp.op = "clear" /\ lastOp.arg = 3
    /\ Live(lastOp.list) /\ size(lastOp.list) = 0
    /\ DOMAIN heap = {}

\* --------------------------------------------------------------------- C26
\* a list as its default constructor leaves it, in a program with no other node
Empty == [heap |-> [n \in {} |-> DNode], fault |-> FALSE,
          head_ |-> NULL, tail_ |-> NULL, size_ |-> 0, walk |-> NoWalk]
\* the calls of the scenario, one after the other
Scenario_pushed  == Push_front(Push_back(Push_back(Empty, 1), 2), 0)
Scenario_removed == Remove(Scenario_pushed, 1)
Scenario_at      == At(Scenario_removed, 5)

\* C26: both lists: on an empty list push_back(1), push_back(2), push_front(0)
\* give the sequence [0,1,2] and size() 3; then remove(1) gives [0,2]; then at(5)
\* fails with the out-of-range error that carries index 5 and size 2.
C26_Scenario ==
    /\ ElemsIn(Scenario_pushed) = <<0, 1, 2>>
    /\ Scenario_pushed.size_ = 3
    /\ ElemsIn(Scenario_removed) = <<0, 2>>
    /\ Scenario_removed.size_ = 2
    /\ ~Scenario_removed.fault
    /\ Scenario_at.kind = "out_of_range"
    /\ CarriedIndex(Scenario_at.what) = 5
    /\ CarriedSize(Scenario_at.what) = 2

\* a program is where the scenario ends: at(5) has failed on a list of two
\* elements that starts with 0, with the very error of the scenario
C26_Witness ==
    /\ lastOp.op = "at" /\ lastOp.arg = 5 /\ size(lastOp.list) = 2
    /\ lastOp.ret = Scenario_at
    /\ Elems(lastOp.list)[1] = 0

\* --------------------------------------------------------------------- C27
\* C27: singly-linked list: pop_back() on a list of at least two elements leaves
\* tail_ at the node before the old tail, with next absent, and destroys the old
\* tail; the push_back(v) that follows links the new node right after that node
\* and makes it the last.
C27_PopBackThenPushBack ==
    /\ [][(kind = "singly" /\ lastOp'.op = "pop_back" /\ lastOp'.arg >= 2) =>
            LET l  == lastOp'.list
                ns == Nodes(l)
                N  == Len(ns)
            IN  /\ N = lastOp'.arg
                /\ lists'[l].tail_ = ns[N - 1]
                /\ ns[N - 1] \in DOMAIN heap'
                /\ heap'[ns[N - 1]].next = NULL
                /\ ns[N] \notin DOMAIN heap'
                /\ NodesOf(heap', lists', l) = SubSeq(ns, 1, N - 1)
        ]_vars
    /\ [][(kind = "singly" /\ lastOp.op = "pop_back" /\ lastOp.arg >= 2
             /\ lastOp'.op = "push_back" /\ lastOp'.list = lastOp.list) =>
            LET l    == lastOp'.list
                prev == lists[l].tail_
                new  == lists'[l].tail_
            IN  /\ new \notin DOMAIN heap
                /\ heap'[prev].next = new
                /\ heap'[new].value = lastOp'.val
                /\ heap'[new].next = NULL
                /\ NodesOf(heap', lists', l) = Append(Nodes(l), new)
                /\ ElemsOf(heap', lists', l) = Append(Elems(l), lastOp'.val)
        ]_vars

\* pop_back() ran on a singly-linked list of three elements: tail_ is the second
\* node and its next is absent
C27_Witness ==
    /\ kind = "singly" /\ lastOp.op = "pop_back" /\ lastOp.arg = 3
    /\ size(lastOp.list) = 2
    /\ lists[lastOp.list].tail_ = Nodes(lastOp.list)[2]
    /\ heap[lists[lastOp.list].tail_].next = NULL

\* --------------------------------------------------------------------- C28
\* C28: both lists, every list state: insert(0, v) leaves what push_front(v)
\* leaves (on the empty list too), insert(size, v) what push_back(v) leaves,
\* remove(0) what pop_front() leaves and remove(size - 1) what pop_back() leaves:
\* the same heap, head_, tail_ and size_.
C28_BoundaryDelegation ==
    \A l \in LiveLists :
        LET f == Frame(l)
            N == size(l)
        IN  /\ Room(heap, 1) =>
                  \A v \in Values :
                     /\ Insert(f, 0, v) = Push_front(f, v)
                     /\ Insert(f, N, v) = Push_back(f, v)
                     /\ ElemsIn(Insert(f, 0, v)) = <<v>> \o Elems(l)
                     /\ ElemsIn(Insert(f, N, v)) = Append(Elems(l), v)
            /\ Remove(f, 0) = Pop_front(f)
            /\ N >= 1 => /\ Remove(f, N - 1) = Pop_back(f)
                         /\ ElemsIn(Remove(f, N - 1)) = SubSeq(Elems(l), 1, N - 1)
                         /\ ElemsIn(Remove(f, 0)) = Tail(Elems(l))

\* a list of three elements with room for one more node: the four boundary
\* calls apply, and insert(3, v) has put v last
C28_Witness ==
    /\ Live(1) /\ size(1) = 3 /\ Room(heap, 1)
    /\ Insert(Frame(1), 3, 1).tail_ = Alloc(heap)
    /\ Insert(Frame(1), 3, 1).size_ = 4
    /\ Remove(Frame(1), 2).tail_ = Nodes(1)[2]

\* --------------------------------------------------------------------- C29
\* C29: both lists, a list that is not empty: front() returns the value of the
\* head node and back() the value of the tail node, front() is what list[0]
\* gives and back() what list[size - 1] gives, and neither call changes the list.
C29_FrontBack ==
    /\ [](lastOp.op \in {"front", "back"} =>
            LET l == lastOp.list
                at_end == IF lastOp.op = "front" THEN lists[l].head_ ELSE lists[l].tail_
                i == IF lastOp.op = "front" THEN 0 ELSE size(l) - 1
            IN  /\ size(l) >= 1
                /\ lastOp.ret.kind = "value"
                /\ lastOp.ret.ref = at_end
                /\ lastOp.ret.value = heap[at_end].value
                /\ lastOp.ret = Ref(Frame(l), Index(Frame(l), i))
                /\ lastOp.ret.value = Elems(l)[i + 1])
    /\ [][lastOp'.op \in {"front", "back"} =>
             (heap' = heap /\ lists' = lists /\ fault' = fault)]_vars

\* back() on a list of three elements whose first and last differ
C29_Witness ==
    /\ lastOp.op = "back" /\ size(lastOp.list) = 3
    /\ lastOp.ret.value = Elems(lastOp.list)[3]
    /\ Elems(lastOp.list)[1] # Elems(lastOp.list)[3]

\* --------------------------------------------------------------------- C30
\* a cursor whose member node is n, held over the step: node n is still a node
\* and *it gives the value it gave before
Stays(n) ==
    /\ n \in DOMAIN heap'
    /\ Iterator_star([heap |-> heap'], n) = Iterator_star([heap |-> heap], n)
\* the step is a push_back, push_front, insert, pop_back, pop_front or remove on
\* list l
ElementCall(l) == lastOp'.op = "element" /\ lastOp'.list = l
\* the step is clear() on list l or the destructor of list l
ClearsOrDestroys(l) == lastOp'.op \in {"clear", "dtor"} /\ lastOp'.list = l
\* the step assigns another list to list l
AssignsOnto(l) ==
    lastOp'.op \in {"assign_copy", "assign_move"} /\ lastOp'.list = l /\ lastOp'.arg # l

\* C30 as stated: a cursor at node n of a list references the same node with the
\* same value after any push_back, push_front or insert and after any pop_back,
\* pop_front or remove of another node; only clear(), the destruction of the list
\* or the removal of n itself leave it at a destroyed node.
C30_Original ==
    [][\A l \in LiveLists :
          LET before == NodeSet(l)
              after  == NodeSetOf(heap', lists', l)
          IN  \A n \in before :
                /\ (ElementCall(l) /\ n \in after) => Stays(n)
                /\ n \notin DOMAIN heap' =>
                      \/ ClearsOrDestroys(l)
                      \/ (ElementCall(l) /\ n \notin after
                            /\ lists'[l].size_ = lists[l].size_ - 1)
      ]_vars

\* C30 with the assignments: the cursor is at a destroyed node after clear(),
\* after the destruction of the list, after the removal of n itself and after a
\* copy or move assignment of another list onto the list (each runs clear()
\* first); after every other call node n is a node with the value it had.
C30_CursorStability ==
    [][\A l \in LiveLists :
          LET before == NodeSet(l)
              after  == NodeSetOf(heap', lists', l)
          IN  IF ElementCall(l)
              THEN \/ /\ after \ before # {}
                      /\ before \subseteq after
                      /\ \A n \in before : Stays(n)
                   \/ /\ after = before
                      /\ \A n \in before : Stays(n)
                   \/ \E gone \in before :
                         /\ after = before \ {gone}
                         /\ lists'[l].size_ = lists[l].size_ - 1
                         /\ gone \notin DOMAIN heap'
                         /\ \A n \in after : Stays(n)
              ELSE IF ClearsOrDestroys(l) THEN before \cap DOMAIN heap' = {}
              ELSE IF AssignsOnto(l)
              THEN /\ before \cap DOMAIN Clear(Frame(l)).heap = {}
                   /\ lastOp'.op = "assign_move" => before \cap DOMAIN heap' = {}
              ELSE \A n \in before : Stays(n)
      ]_vars

\* a list holds the nodes at addresses 1 and 3 after a call on it, and address
\* 2 between them has been given back: the node in the middle was removed and
\* the two others stayed
C30_Witness ==
    /\ lastOp.op = "element" /\ Live(lastOp.list)
    /\ Nodes(lastOp.list) = <<1, 3>>
    /\ 2 \notin DOMAIN heap

\* --------------------------------------------------------------------- C31
\* the conversion keeps the member node: the converted cursor is at the node the
\* argument was at, and an argument at the element of index i gives a cursor at
\* the element of index i
KeepsReferent ==
    LET l == lastOp'.list
    IN  /\ lastOp'.ret.kind = "cursor"
        /\ lastOp'.ret.ref = lastOp.ret.ref
        /\ \A i \in 0..(size(l) - 1) :
              lastOp.ret.ref = Index(Frame(l), i) => lastOp'.ret.ref = Index(Frame(l), i)
\* the step converts a forward cursor at the sentinel to the reverse class t
SentinelToReverse(t) ==
    /\ kind = "doubly" /\ lastOp'.op = "iterator_cast"
    /\ lastOp.ret.what[1] \in Forward /\ lastOp.ret.ref = NULL
    /\ lastOp'.ret.what = <<t>> /\ t \in Reverse
\* the converted sentinel compares equal to rend() / crend() of the list and
\* unequal to rbegin() / crbegin(), each a defined call
IsRendNotRbegin(t) ==
    LET l == lastOp'.list
    IN  /\ \A e \in End(t, Frame(l)) : e.kind = "cursor" /\ Eq(t, lastOp'.ret.ref, e.ref)
        /\ \A b \in Begin(t, Frame(l)) : b.kind = "cursor" /\ Neq(t, lastOp'.ret.ref, b.ref)

\* C31 as stated: doubly-linked list: iterator_cast gives a cursor at exactly
\* the node the argument was at, so a forward cursor at index k becomes a reverse
\* cursor at index k, and the past-the-end sentinel becomes the reverse sentinel,
\* which equals rend() and not rbegin().
C31_Original ==
    [][(kind = "doubly" /\ lastOp'.op = "iterator_cast") =>
          /\ KeepsReferent
          /\ \A t \in Reverse : SentinelToReverse(t) => IsRendNotRbegin(t)
      ]_vars

\* C31 on the lists that hold an element: there rend() is defined and rbegin()
\* is at the last element.
C31_NonEmptyCast ==
    [][(kind = "doubly" /\ lastOp'.op = "iterator_cast") =>
          /\ KeepsReferent
          /\ \A t \in Reverse :
                (SentinelToReverse(t) /\ size(lastOp'.list) >= 1) => IsRendNotRbegin(t)
      ]_vars

\* a conversion has given a ReverseIterator at the sentinel of a list of two
\* elements: it equals rend() and differs from rbegin()
C31_Witness ==
    /\ kind = "doubly" /\ lastOp.op = "iterator_cast" /\ size(lastOp.list) = 2
    /\ lastOp.ret = Cur("ReverseIterator", NULL)
    /\ D_rend(Frame(lastOp.list)) = {lastOp.ret}
    /\ D_rbegin(Frame(lastOp.list)) = {Cur("ReverseIterator", lists[lastOp.list].tail_)}

\* --------------------------------------------------------------------- C32
\* (it += n) -= n on a cursor of class k with member node
RoundTrip(k, f, node, n) == MinusAssign(k, f, PlusAssign(k, f, node, 0, n), 0, n)

\* C32: doubly-linked list, a forward cursor at the element of index p of a list
\* of size N, every n >= 0: (it += n) -= n is at the element of index p again
\* exactly when p + n <= N - 1 and is the sentinel when p + n >= N; -- on the
\* cursor end() returned gives the sentinel, never the last element.
C32_RoundTrip ==
    /\ [](kind = "doubly" =>
            \A l \in LiveLists : \A k \in Forward : \A p \in 0..(size(l) - 1) : \A n \in Idx :
                LET f    == Frame(l)
                    again == RoundTrip(k, f, Index(f, p), n)
                IN  /\ (again = Index(f, p)) <=> (p + n <= size(l) - 1)
                    /\ p + n >= size(l) => again = NULL)
    /\ [][(kind = "doubly" /\ lastOp.op = "operator+=" /\ lastOp'.op = "operator-="
             /\ lastOp'.arg = lastOp.arg /\ lastOp.ret.what[1] \in Forward) =>
            LET l == lastOp'.list
                f == Frame(l)
            IN  /\ lastOp'.ret.kind = "cursor"
                /\ lastOp.ret.ref = NULL => lastOp'.ret.ref = NULL
                /\ \A q \in 0..(size(l) - 1) :
                      lastOp.ret.ref = Index(f, q) =>
                          /\ q >= lastOp.arg
                          /\ lastOp'.ret.ref = Index(f, q - lastOp.arg)
        ]_vars
    /\ [][(kind = "doubly" /\ lastOp.op \in {"end", "cend"} /\ lastOp'.op = "operator--") =>
            /\ lastOp'.ret.kind = "cursor"
            /\ lastOp'.ret.ref = NULL
            /\ lastOp'.ret.ref # lists[lastOp'.list].tail_
        ]_vars

\* it -= 2 has stopped at the sentinel of a list of three elements, where
\* (it += 2) -= 2 from index 0 comes back to index 0 and from index 1 does not
C32_Witness ==
    /\ kind = "doubly" /\ lastOp.op = "operator-=" /\ lastOp.arg = 2
    /\ size(lastOp.list) = 3
    /\ lastOp.ret = Cur("Iterator", NULL)
    /\ RoundTrip("Iterator", Frame(lastOp.list), Nodes(lastOp.list)[1], 2) = Nodes(lastOp.list)[1]
    /\ RoundTrip("Iterator", Frame(lastOp.list), Nodes(lastOp.list)[2], 2) = NULL

\* --------------------------------------------------------------------- C33
\* C33: both lists, copy or move assignment of another list onto a list that
\* holds nodes: every node the destination held is deleted, once (no delete hits
\* a node that is not allocated), none of them is a node of either list
\* afterwards (the nodes of the destination are the source's, or were made after
\* the deletes), and the destination has the size and the element sequence the
\* source had.
C33_AssignOntoNonEmpty ==
    [][(lastOp'.op \in {"assign_copy", "assign_move"} /\ lastOp'.list # lastOp'.arg
          /\ size(lastOp'.list) >= 1) =>
          LET l       == lastOp'.list
              o       == lastOp'.arg
              old     == NodeSet(l)
              cleared == Clear(Frame(l))
              now     == NodeSetOf(heap', lists', l)
          IN  /\ old \cap DOMAIN cleared.heap = {}
              /\ DOMAIN cleared.heap = DOMAIN heap \ old
              /\ ~cleared.fault /\ fault' = fault
              /\ now \cap DOMAIN cleared.heap = (IF lastOp'.op = "assign_move" THEN NodeSet(o) ELSE {})
              /\ lastOp'.op = "assign_move" =>
                    /\ old \cap DOMAIN heap' = {}
                    /\ DOMAIN heap' = DOMAIN heap \ old
                    /\ NodesOf(heap', lists', l) = Nodes(o)
              /\ lastOp'.op = "assign_copy" =>
                    /\ DOMAIN heap' \ now = DOMAIN heap \ old
                    /\ NodesOf(heap', lists', o) = Nodes(o)
              /\ lists'[l].size_ = lists[o].size_
              /\ ElemsOf(heap', lists', l) = Elems(o)
              /\ Len(NodesOf(heap', lists', l)) = lists[o].size_
      ]_vars

\* a copy assignment has replaced the nodes of a list by a copy of two unlike
\* elements, and the heap holds the nodes of the two lists and no other
C33_Witness ==
    /\ lastOp.op = "assign_copy" /\ lastOp.list # lastOp.arg
    /\ size(lastOp.list) = 2 /\ Elems(lastOp.list) = Elems(lastOp.arg)
    /\ Elems(lastOp.list)[1] # Elems(lastOp.list)[2]
    /\ DOMAIN heap = NodeSet(1) \cup NodeSet(2)
    /\ Cardinality(DOMAIN heap) = 4

\* --------------------------------------------------------------------- C34
\* C34: both lists: a copy assignment or a move assignment of a list to itself
\* leaves head_, tail_, size_, every node and every value as they were and
\* deletes no node.
C34_SelfAssignment ==
    [][(lastOp'.op \in {"assign_copy", "assign_move"} /\ lastOp'.list = lastOp'.arg) =>
          LET l == lastOp'.list
          IN  /\ lists'[l] = lists[l]
              /\ heap' = heap
              /\ DOMAIN heap' = DOMAIN heap
              /\ NodesOf(heap', lists', l) = Nodes(l)
              /\ ElemsOf(heap', lists', l) = Elems(l)
              /\ fault' = fault
      ]_vars

\* a list of three elements was move-assigned to itself and holds them still
C34_Witness ==
    /\ lastOp.op = "assign_move" /\ lastOp.list = lastOp.arg
    /\ size(lastOp.list) = 3 /\ Len(Elems(lastOp.list)) = 3
    /\ Elems(lastOp.list)[1] # Elems(lastOp.list)[3]

\* --------------------------------------------------------------------- C35
\* whether a call on a doubly-linked list in frame f reaches the expression
\* size_-1 - index: at() when it does not throw (it then runs operator[]),
\* insert and remove when they take their interior branch and note a walk
Evaluates(name, f, i) ==
    CASE name = "at"     -> D_at(f, i).kind # "out_of_range"
      [] name = "insert" -> D_insert(f, i, 0).walk # NoWalk
      [] name = "remove" -> D_remove(f, i).walk # NoWalk

\* size_-1 - index as size_t computes it, and as the integers do
Wrapped(f, i) == SizeSub(SizeSub(f.size_, 1), i)
Exact(f, i)   == f.size_ - 1 - i

\* C35: doubly-linked list, size_t arithmetic: at(), insert() and remove()
\* evaluate size_-1 - index only when size_ >= 1 and index <= size_-1, so the
\* subtraction does not wrap; the backward loop, whose counter starts at
\* size_-1, runs size_-1-index times and stops with the counter equal to index;
\* on an empty list none of the three evaluates the expression, while
\* operator[] evaluates it first thing and there it wraps.
C35_NoWrap ==
    /\ [](kind = "doubly" =>
            \A l \in LiveLists : \A i \in Idx \cup {FarIndex} :
                LET g == Frame(l)
                IN  /\ \A name \in {"at", "remove"} :
                          Evaluates(name, g, i) =>
                              /\ g.size_ >= 1 /\ i <= g.size_ - 1
                              /\ Wrapped(g, i) = Exact(g, i)
                              /\ StepsPrev(SizeSub(g.size_, 1), i) = g.size_ - 1 - i
                    /\ (Room(heap, 1) /\ Evaluates("insert", g, i)) =>
                              /\ g.size_ >= 1 /\ i <= g.size_ - 1
                              /\ Wrapped(g, i) = Exact(g, i)
                              /\ StepsPrev(SizeSub(g.size_, 1), i) = g.size_ - 1 - i
                    /\ g.size_ = 0 =>
                          /\ ~Evaluates("at", g, i) /\ ~Evaluates("remove", g, i)
                          /\ Room(heap, 1) => ~Evaluates("insert", g, i)
                          /\ Wrapped(g, i) # Exact(g, i)
                          /\ Wrapped(g, i) = 2^SizeBits - 1 - i
                          /\ ~CloserToEnd(g, i))
    /\ [][(/\ kind = "doubly"
           /\ \/ lastOp'.op = "at" /\ lastOp'.ret.kind # "out_of_range"
              \/ lastOp'.op \in {"insert", "remove"} /\ lastOp'.walk # NoWalk) =>
              /\ lists[lastOp'.list].size_ >= 1
              /\ lastOp'.arg <= lists[lastOp'.list].size_ - 1
              /\ SizeSub(SizeSub(lists[lastOp'.list].size_, 1), lastOp'.arg)
                     = lists[lastOp'.list].size_ - 1 - lastOp'.arg
      ]_vars

\* remove(2) on a list of four walked backward from tail_: the counter started
\* at 3 and stopped at 2 after one step
C35_Witness ==
    /\ kind = "doubly"
    /\ lastOp.op = "remove" /\ lastOp.arg = 2 /\ size(lastOp.list) = 3
    /\ lastOp.walk = [from |-> "tail_", via |-> "previous", visited |-> 2]

\* --------------------------------------------------------------------- C36
\* frame f with the next link of every node but head_ made indeterminate
OnlyHeadLinked(f) ==
    [f EXCEPT !.heap = [a \in DOMAIN f.heap |->
                           IF a = f.head_ THEN f.heap[a]
                           ELSE [f.heap[a] EXCEPT !.next = UNINIT]]]

\* what pop_front leaves in the members of the list
MembersAfter(f) == <<f.head_, f.tail_, f.size_, f.fault>>

\* C36: singly-linked list, every reachable list of size >= 2: the predecessor
\* search of pop_back ends after exactly size-2 steps `current = current->next`
\* from head_, at the node whose next is tail_, and every next it follows is a
\* node; pop_front walks nothing: it reads the links of head_ only.
C36_PredecessorSearch ==
    /\ [](kind = "singly" =>
            \A l \in LiveLists :
                LET f     == Frame(l)
                    n     == f.size_
                    steps == S_find_steps(f, f.head_, MaxNodes)
                    found == S_find_before_tail(f, f.head_, MaxNodes)
                IN  /\ n >= 2 =>
                          /\ steps = n - 2
                          /\ steps < MaxNodes
                          /\ found = Nodes(l)[n - 1]
                          /\ found \in DOMAIN heap /\ heap[found].next = f.tail_
                          /\ \A j \in 1..steps :
                                /\ Nodes(l)[j] \in DOMAIN heap
                                /\ heap[Nodes(l)[j]].next = Nodes(l)[j + 1]
                                /\ heap[Nodes(l)[j]].next \in DOMAIN heap
                    /\ n >= 1 =>
                          /\ MembersAfter(S_pop_front(OnlyHeadLinked(f))) = MembersAfter(S_pop_front(f))
                          /\ ~S_pop_front(f).fault)
    /\ [][(kind = "singly" /\ lastOp'.op = "pop_back" /\ lists[lastOp'.list].size_ >= 2) =>
              /\ lists'[lastOp'.list].tail_ = Nodes(lastOp'.list)[lists[lastOp'.list].size_ - 1]
              /\ lists'[lastOp'.list].tail_ =
                     S_find_before_tail(Frame(lastOp'.list), lists[lastOp'.list].head_, MaxNodes)
              /\ ~fault'
      ]_vars

\* pop_back ran on a list of four: two steps led to the third node, now the
\* tail; with the links behind head_ gone pop_back of the three left goes
\* astray while pop_front does not
C36_Witness ==
    /\ kind = "singly"
    /\ lastOp.op = "pop_back" /\ lastOp.arg = 4 /\ size(lastOp.list) = 3
    /\ S_find_steps(Frame(lastOp.list), lists[lastOp.list].head_, MaxNodes) = 1
    /\ S_pop_back(OnlyHeadLinked(Frame(lastOp.list))).fault
    /\ ~S_pop_front(OnlyHeadLinked(Frame(lastOp.list))).fault

\* --------------------------------------------------------------------- C37
AllClasses == Forward \cup Reverse

\* the pairs <<class of the argument, IT_type>> iterator_cast compiles for
Compiles == {<<s, t>> \in AllClasses \X AllClasses : t \in Cast_targets(s)}

\* the pairs the claim lists for the singly-linked list: the lattice of the
\* doubly-linked list restricted to the two forward classes
C37_Claimed ==
    {<<"Iterator", "Iterator">>, <<"Iterator", "ConstIterator">>,
     <<"ConstIterator", "ConstIterator">>}

\* C37 as stated: singly-linked list: iterator_cast converts an Iterator to
\* Iterator and ConstIterator and a ConstIterator to ConstIterator.
C37_Original ==
    kind = "singly" => Compiles = C37_Claimed

\* C37: singly-linked list: iterator_cast compiles for an Iterator argument
\* only, with the targets Iterator and ConstIterator; a ConstIterator has no
\* conversion at all; a conversion keeps the node referred to, and none takes a
\* const cursor to a mutable one.
C37_SinglyLattice ==
    /\ [](kind = "singly" =>
            /\ Compiles = {<<"Iterator", "Iterator">>, <<"Iterator", "ConstIterator">>}
            /\ Cast_targets("ConstIterator") = {}
            /\ \A p \in Compiles : ~(p[1] \in Const /\ p[2] \in Mutable))
    /\ [][(kind = "singly" /\ lastOp'.op = "iterator_cast") =>
             /\ lastOp.ret.what[1] = "Iterator"
             /\ lastOp'.ret.what[1] \in {"Iterator", "ConstIterator"}
             /\ lastOp'.ret.kind = "cursor"
             /\ lastOp'.ret.ref = lastOp.ret.ref
         ]_vars

\* a conversion has given a ConstIterator at the second element of a list of
\* three; no further conversion of it compiles
C37_Witness ==
    /\ kind = "singly" /\ lastOp.op = "iterator_cast" /\ size(lastOp.list) = 3
    /\ lastOp.ret = Cur("ConstIterator", Nodes(lastOp.list)[2])
    /\ Cast_targets(lastOp.ret.what[1]) = {}

\* --------------------------------------------------------------------- C38
\* node a is in h2 what it was in h1, but for the links named in flds
SameBut(h1, h2, a, flds) ==
    /\ a \in DOMAIN h1 /\ a \in DOMAIN h2
    /\ DOMAIN h2[a] = DOMAIN h1[a]
    /\ \A fld \in DOMAIN h1[a] \ flds : h2[a][fld] = h1[a][fld]

\* C38: both lists: an insert with 0 < index < size and a remove with
\* 0 < index < size-1 leave head_ and tail_ as they were; the insert allocates
\* exactly one node and the remove deletes exactly one, the node at index; of
\* the other nodes only the node before the position has its next rewritten
\* and, in the doubly-linked list, the node after it its previous; every other
\* node keeps its links and every other node its value.
C38_InteriorFrame ==
    [][ LET l    == lastOp'.list
            i    == lastOp'.arg
            n    == lists[l].size_
            ns   == Nodes(l)
            prev == ns[i]
            cur  == ns[i + 1]
            rear == IF kind = "doubly" THEN {"previous"} ELSE {}
        IN  /\ (lastOp'.op = "insert" /\ 0 < i /\ i < n) =>
                  LET fresh == DOMAIN heap' \ DOMAIN heap
                  IN  /\ lists'[l].head_ = lists[l].head_
                      /\ lists'[l].tail_ = lists[l].tail_
                      /\ lists'[l].size_ = n + 1
                      /\ DOMAIN heap \subseteq DOMAIN heap'
                      /\ Cardinality(fresh) = 1
                      /\ \A tmp \in fresh :
                            /\ heap'[tmp].value = lastOp'.val
                            /\ heap'[tmp].next = cur
                            /\ kind = "doubly" => heap'[tmp].previous = prev
                            /\ heap'[prev].next = tmp
                            /\ kind = "doubly" => heap'[cur].previous = tmp
                      /\ SameBut(heap, heap', prev, {"next"})
                      /\ SameBut(heap, heap', cur, rear)
                      /\ \A a \in DOMAIN heap \ {prev, cur} : heap'[a] = heap[a]
                      /\ ~fault'
            /\ (lastOp'.op = "remove" /\ 0 < i /\ i < n - 1) =>
                  LET succ == ns[i + 2]
                  IN  /\ lists'[l].head_ = lists[l].head_
                      /\ lists'[l].tail_ = lists[l].tail_
                      /\ lists'[l].size_ = n - 1
                      /\ DOMAIN heap' = DOMAIN heap \ {cur}
                      /\ cur \in DOMAIN heap
                      /\ heap'[prev].next = succ
                      /\ kind = "doubly" => heap'[succ].previous = prev
                      /\ SameBut(heap, heap', prev, {"next"})
                      /\ SameBut(heap, heap', succ, rear)
                      /\ \A a \in DOMAIN heap \ {prev, cur, succ} : heap'[a] = heap[a]
                      /\ ~fault'
      ]_vars

\* insert(2, v) ran on a list of three: head_ and tail_ are the first and the
\* fourth node of the chain, and the new node is the third
C38_Witness ==
    /\ lastOp.op = "insert" /\ lastOp.arg = 2 /\ size(lastOp.list) = 4
    /\ Len(Nodes(lastOp.list)) = 4
    /\ lists[lastOp.list].head_ = Nodes(lastOp.list)[1]
    /\ lists[lastOp.list].tail_ = Nodes(lastOp.list)[4]
    /\ heap[Nodes(lastOp.list)[3]].value = lastOp.val

====
